---- MODULE Spec2Model ----
(***************************************************************************)
(* Model of the 3-D scene component AxeeVisuals3D (src/unnamed/part_000):  *)
(* the component's lifecycle (connect, update, first update/init, frame    *)
(* ticks, disconnect), the reconciliation of the live-body map `planets`   *)
(* against the `planetsData` snapshot, and the disposal of GPU resources.  *)
(*                                                                         *)
(* `planets` is the Map in insertion order; an entry is the THREE.Group of  *)
(* one body id (the code holds at most one group per id, referenced from   *)
(* the Map and from the scene).  Every handler records the steps it        *)
(* performs, in order, in `log`.                                           *)
(***************************************************************************)
EXTENDS Integers, Sequences, FiniteSets, TLC

\* ---------------------------------------------------------------- bounds
MaxLen == 2          \* longest planetsData snapshot
MaxElapsed == 2      \* clock time (in ticks) up to which frames are run
MaxRequests == 2     \* requests of one kind the host has waiting at a time
MaxNetworks == 3     \* LineSegments objects createNeuralNetwork has made

\* ------------------------------------------------------ program constants
BaseRadius == 15
RadiusStep == 8
LerpDivisor == 20     \* lerp(target, 0.05): one twentieth of the way

\* ------------------------------------------------------------ value sets
Null == "null"               \* JS null / undefined
Ids == {"A", "B"}            \* celestial_body_id values
Speeds == {1, 2}             \* orbitSpeed, in quarter turns per clock tick
Deltas == {1, 2}             \* clock.getDelta() results, in ticks
PropNames == {"planetsData", "selectedPlanetId", "micStream", "isScanning",
              "isListening", "isSpeaking"}

\* PlanetData records.  planetType = Null models a record without the
\* planetType field, visualization = FALSE one without the visualization
\* object (hasRings is then meaningless).
Record(id, type, vis, rings) ==
    [celestial_body_id |-> id, planetType |-> type,
     visualization |-> vis, hasRings |-> rings]

WellFormed ==
    {Record("A", "Rocky", TRUE, FALSE),
     Record("B", "Gas Giant", TRUE, TRUE),
     Record("B", "Rocky", TRUE, FALSE)}

PlanetData == WellFormed

\* Records that lack a required visual parameter: one without planetType,
\* one without the visualization object.
Malformed ==
    {Record("A", Null, TRUE, FALSE),
     Record("B", "Rocky", FALSE, FALSE)}

RECURSIVE SeqsUpTo(_, _)
SeqsUpTo(S, n) ==
    IF n = 0 THEN {<<>>}
    ELSE LET shorter == SeqsUpTo(S, n - 1)
         IN  shorter \cup {Append(s, x) : s \in {t \in shorter : Len(t) = n - 1}, x \in S}

Snapshots == SeqsUpTo(PlanetData, MaxLen)

\* Snapshots in which records may be malformed.
AnySnapshots == SeqsUpTo(PlanetData \cup Malformed, MaxLen)

\* Snapshots that respect the data model: no id occurs twice.
UniqueSnapshots ==
    {s \in Snapshots :
        \A i, j \in 1..Len(s) :
            s[i].celestial_body_id = s[j].celestial_body_id => i = j}

\* Snapshots of a host that lists its discoveries in a fixed order, adding
\* at the end and dropping from the front.
Discoveries ==
    <<Record("A", "Rocky", TRUE, FALSE), Record("B", "Gas Giant", TRUE, TRUE)>>

DiscoverySnapshots ==
    {SubSeq(Discoveries, i, j) : i \in 1..(Len(Discoveries) + 1),
                                j \in 0..Len(Discoveries)} \cap Snapshots

SeqRange(q) == {q[i] : i \in 1..Len(q)}

\* currentPlanetIds of updatePlanets: planetsData.map(p => p.celestial_body_id)
currentPlanetIds(data) == [i \in 1..Len(data) |-> data[i].celestial_body_id]

VARIABLES
    connected,          \* the element is in the document (listeners attached)
    updatesEnabled,     \* the element has been connected once: updates run
    changedProperties,  \* reactive properties changed since the last update
    initialized,        \* init() has run: scene, renderer, controls exist
    planetsData,        \* @property planetsData
    selectedPlanetId,   \* @property selectedPlanetId
    isScanning,         \* @property isScanning
    micStream,          \* @property micStream: Null, or the stream's state
    isListening,        \* @property isListening
    isSpeaking,         \* @property isSpeaking
    uniforms,           \* uniforms of the aiEntity material
    discoveredPlanets,  \* the host's discoveredPlanets, in insertion order
    hostPlanets,        \* what the host's render assigned to `planets`, or Null
    hostError,          \* the host's error message, or Null
    inFlight,           \* synthesizeExoplanet calls waiting for their response
    hasStartedDiscovery,\* the host's hasStartedDiscovery (the 20 s timer runs)
    now,                \* the earliest time Date.now() can read next
    recognition,        \* the SpeechRecognition session: idle, starting, started
    micRequests,        \* getUserMedia calls of enableAudio not yet answered
    orphanStreams,      \* capturing streams that micStream no longer references
    singleInterface,    \* the single-planet AxeeInterface (src/index.tsx)
    singleVisuals,      \* the single-planet AxeeVisuals3D it renders
    planets,            \* Map<string, Group>: the groups, in insertion order
    removedGroups,      \* resources of the groups the last handler removed
    sceneChildren,      \* ids of the planet groups attached to the scene
    sharedDisposed,     \* disposed resources of the shared scene objects
    controlsDisposed,   \* OrbitControls.dispose() was called
    rendererDisposed,   \* WebGLRenderer.dispose() was called
    resizeListener,     \* window 'resize' listener is registered
    animationFrameId,   \* this.animationFrameId
    rafPending,         \* ids of frame callbacks scheduled and not yet run
    elapsed,            \* clock.getElapsedTime()
    autoRotate,         \* controls.autoRotate
    targetPosition,     \* commanded camera position
    targetLookAt,       \* commanded camera look-at
    decorationsVisible, \* dataTrails.visible
    neuralNetwork,      \* this.neuralNetwork: index into networks, or 0 (null)
    networks,           \* every LineSegments createNeuralNetwork has made
    cameraPosition,     \* camera.position, in units of 1/Scale
    controlsTarget,     \* controls.target, in units of 1/Scale
    rayOrigin,          \* raycaster.ray.origin, in units of 1/Scale
    intersects,         \* result of the last raycaster.intersectObjects
    hoveredPlanetId,    \* this.hoveredPlanetId
    cursor,             \* renderer.domElement.style.cursor
    tooltipDisplay,     \* tooltipElement.style.display
    outcome,            \* how the last updatePlanets ended, or Null
    sameSnapshot,       \* planetsData equals the snapshot processed before it
    log                 \* steps performed by the last handler, in order

vars == <<connected, updatesEnabled, changedProperties, initialized,
          planetsData, selectedPlanetId, isScanning, micStream, planets,
          removedGroups, sceneChildren, sharedDisposed,
          controlsDisposed, rendererDisposed, resizeListener,
          animationFrameId, rafPending, elapsed, autoRotate,
          targetPosition, targetLookAt, decorationsVisible,
          cameraPosition, controlsTarget, rayOrigin, intersects,
          hoveredPlanetId, cursor, tooltipDisplay, isListening,
          isSpeaking, uniforms, discoveredPlanets, hostPlanets, hostError,
          inFlight, hasStartedDiscovery, now, recognition, micRequests,
          orphanStreams, singleInterface, singleVisuals, neuralNetwork,
          networks, outcome,
          sameSnapshot, log>>

\* ------------------------------------------------------------ log entries
Step(op, id, what) == [op |-> op, id |-> id, what |-> what]

\* ------------------------------------------------------- scene resources
\* Sub-meshes a planet group is built from (createPlanet).
MeshesOf(hasRings) ==
    IF hasRings THEN <<"core", "atmosphere", "ring">>
    ELSE <<"core", "atmosphere">>

\* GPU resources createPlanet allocates for a group: a geometry and a
\* material per sub-mesh, and the CanvasTexture bound as the core's map.
ResourcesOf(hasRings) ==
    {MeshesOf(hasRings)[i] \o k :
        i \in 1..Len(MeshesOf(hasRings)), k \in {".geometry", ".material"}}
    \cup {"core.texture"}

\* Shared scene objects created by init, in scene.add order, with the THREE
\* class of each (lights carry no geometry).
SharedObjects ==
    << [name |-> "starfield", class |-> "Points"],
       [name |-> "star", class |-> "Mesh"],
       [name |-> "aiEntity", class |-> "Mesh"],
       [name |-> "dataTrails", class |-> "Group"],
       [name |-> "neuralNetwork", class |-> "LineSegments"] >>

SharedResources ==
    {SharedObjects[i].name \o k :
        i \in {j \in 1..Len(SharedObjects) : SharedObjects[j].class # "Group"},
        k \in {".geometry", ".material"}}

\* ----------------------------------------------------------- orbit maths
\* cos and sin at whole quarter turns; an orbit phase is elapsed * speed.
Cos4(p) == <<1, 0, -1, 0>>[(p % 4) + 1]
Sin4(p) == <<0, 1, 0, -1>>[(p % 4) + 1]

\* group.position.set(cos(elapsed*speed)*radius, 0, sin(elapsed*speed)*radius)
OrbitPosition(t, speed, radius) ==
    <<Cos4(t * speed) * radius, 0, Sin4(t * speed) * radius>>

VecAdd(u, v) == <<u[1] + v[1], u[2] + v[2], u[3] + v[3]>>

\* --------------------------------------------------------- camera maths
\* The camera's coordinates are kept in units of 1/Scale, fine enough for
\* every lerp of a run (the frame of init and one per clock tick) to be
\* exact.
RECURSIVE Pow(_, _)
Pow(b, n) == IF n = 0 THEN 1 ELSE b * Pow(b, n - 1)

Scale == Pow(LerpDivisor, MaxElapsed + 1)

Scaled(v) == <<v[1] * Scale, v[2] * Scale, v[3] * Scale>>

\* Vector3.lerp(v, 0.05): this.x += (v.x - this.x) * alpha, per coordinate;
\* `to` is in scene units.
\* Variant of the lerp with factor 2: the step lands beyond the target.
lerp1Beyond(from, to) == from + 2 * (to * Scale - from)

lerp1(from, to) == from + ((to * Scale - from) \div LerpDivisor)

lerp(from, to) ==
    <<lerp1(from[1], to[1]), lerp1(from[2], to[2]), lerp1(from[3], to[3])>>

\* ------------------------------------------------------- the planets Map
Keys(pl) == [i \in 1..Len(pl) |-> pl[i].id]
Has(pl, id) == \E i \in 1..Len(pl) : pl[i].id = id
Get(pl, id) == pl[CHOOSE i \in 1..Len(pl) : pl[i].id = id]
MapDelete(pl, id) == SelectSeq(pl, LAMBDA e : e.id # id)
MapSet(pl, id, group) ==
    IF Has(pl, id)
      THEN [i \in 1..Len(pl) |-> IF pl[i].id = id THEN group ELSE pl[i]]
      ELSE Append(pl, group)
Without(q, x) == SelectSeq(q, LAMBDA e : e # x)

\* --------------------------------------------------------- Scene Registry
\* The handlers below transform a record m of the fields they touch:
\*   planets, removed, children (of the scene), log, and threw, which is
\* set when a TypeError escapes; sceneDefined tells whether this.scene
\* exists.

\* data.planetType.toLowerCase().includes('gas')
isGasGiant(planetType) == planetType = "Gas Giant"

\* planetSize, in tenths
planetSize(planetType) == IF isGasGiant(planetType) THEN 25 ELSE 15

\* Variant of the radius formula that counts snapshot positions from one.
orbitalRadiusFromOne(index) == BaseRadius + (index + 1) * RadiusStep

orbitalRadiusOf(index) == BaseRadius + index * RadiusStep

\* geometry.dispose() and material.dispose() of every Mesh of the group, in
\* traversal order; the core material's texture map is not touched.
DisposedByTraverse(hasRings) ==
    LET ms == MeshesOf(hasRings)
    IN  [i \in 1..(2 * Len(ms)) |->
            ms[(i + 1) \div 2] \o (IF i % 2 = 1 THEN ".geometry" ELSE ".material")]

DisposeSteps(id, res) == [i \in 1..Len(res) |-> Step("dispose", id, res[i])]

Throw(m, id, what) ==
    [m EXCEPT !.threw = TRUE, !.log = Append(@, Step("throw", id, what))]

createPlanet(m, sceneDefined, data, index, speed) ==
    IF data.planetType = Null THEN Throw(m, "", "data.planetType")
    ELSE IF ~data.visualization THEN Throw(m, "", "data.visualization")
    ELSE
      LET id == data.celestial_body_id
          radius == orbitalRadiusOf(index)
          planetGroup ==
              [id |-> id,
               planetSize |-> planetSize(data.planetType),
               hasRings |-> data.hasRings,
               orbitalRadius |-> radius,
               orbitSpeed |-> speed,
               position |-> <<radius, 0, 0>>,
               rotationY |-> 0,
               disposed |-> {}]
          set == [m EXCEPT
                    !.planets = MapSet(@, id, planetGroup),
                    !.log = @ \o <<Step("create", id, ""), Step("set", id, "")>>]
      IN  IF ~sceneDefined THEN Throw(set, id, "scene.add")
          ELSE [set EXCEPT !.children = Append(@, id),
                           !.log = Append(@, Step("attach", id, ""))]

\* Variant of removePlanet that detaches and drops the group without the
\* dispose traversal.
removePlanetNoRelease(m, sceneDefined, id) ==
    IF ~Has(m.planets, id) THEN m
    ELSE
      LET planetGroup == Get(m.planets, id)
      IN  IF ~sceneDefined THEN Throw(m, id, "scene.remove")
          ELSE [m EXCEPT
                  !.children = Without(@, id),
                  !.removed = Append(@,
                      [id |-> id,
                       resources |-> ResourcesOf(planetGroup.hasRings),
                       disposed |-> planetGroup.disposed]),
                  !.planets = MapDelete(@, id),
                  !.log = @ \o <<Step("detach", id, ""), Step("delete", id, "")>>]

\* Variant of removePlanet that drops the group from the Map before it
\* disposes the group's resources.
removePlanetDropFirst(m, sceneDefined, id) ==
    IF ~Has(m.planets, id) THEN m
    ELSE
      LET planetGroup == Get(m.planets, id)
          res == DisposedByTraverse(planetGroup.hasRings)
      IN  IF ~sceneDefined THEN Throw(m, id, "scene.remove")
          ELSE [m EXCEPT
                  !.children = Without(@, id),
                  !.removed = Append(@,
                      [id |-> id,
                       resources |-> ResourcesOf(planetGroup.hasRings),
                       disposed |-> planetGroup.disposed \cup SeqRange(res)]),
                  !.planets = MapDelete(@, id),
                  !.log = (@ \o <<Step("detach", id, ""), Step("delete", id, "")>>)
                          \o DisposeSteps(id, res)]

removePlanet(m, sceneDefined, id) ==
    IF ~Has(m.planets, id) THEN m
    ELSE
      LET planetGroup == Get(m.planets, id)
          res == DisposedByTraverse(planetGroup.hasRings)
      IN  IF ~sceneDefined THEN Throw(m, id, "scene.remove")
          ELSE [m EXCEPT
                  !.children = Without(@, id),
                  !.removed = Append(@,
                      [id |-> id,
                       resources |-> ResourcesOf(planetGroup.hasRings),
                       disposed |-> planetGroup.disposed \cup SeqRange(res)]),
                  !.planets = MapDelete(@, id),
                  !.log = (Append(@, Step("detach", id, ""))
                             \o DisposeSteps(id, res))
                          \o <<Step("delete", id, "")>>]

\* for (const id of this.planets.keys()) if (!currentPlanetIds.includes(id)) ...
RECURSIVE RemoveOld(_, _, _, _)
RemoveOld(m, sceneDefined, keys, current) ==
    IF keys = <<>> \/ m.threw THEN m
    ELSE RemoveOld(IF Head(keys) \notin SeqRange(current)
                     THEN removePlanet(m, sceneDefined, Head(keys))
                     ELSE m,
                   sceneDefined, Tail(keys), current)

\* Variant of the creation loop that rebuilds a group already in the Map
\* when the record of its id describes another body.
RECURSIVE AddNewRefresh(_, _, _, _, _)
AddNewRefresh(m, sceneDefined, data, speeds, i) ==
    IF i > Len(data) \/ m.threw THEN m
    ELSE AddNewRefresh(
             IF \/ ~Has(m.planets, data[i].celestial_body_id)
                \/ Get(m.planets, data[i].celestial_body_id).hasRings
                      # data[i].hasRings
               THEN createPlanet(m, sceneDefined, data[i], i - 1, speeds[i])
               ELSE m,
             sceneDefined, data, speeds, i + 1)

\* this.planetsData.forEach((planetData, index) => ...), index from 0
RECURSIVE AddNew(_, _, _, _, _)
AddNew(m, sceneDefined, data, speeds, i) ==
    IF i > Len(data) \/ m.threw THEN m
    ELSE AddNew(IF ~Has(m.planets, data[i].celestial_body_id)
                  THEN createPlanet(m, sceneDefined, data[i], i - 1, speeds[i])
                  ELSE m,
                sceneDefined, data, speeds, i + 1)

\* Variant of updatePlanets that only adds: stale groups stay in the Map.
updatePlanetsKeepStale(m, sceneDefined, data, speeds) ==
    AddNew([m EXCEPT !.log = Append(@, Step("updatePlanets", "", ""))],
           sceneDefined, data, speeds, 1)

\* Variant of updatePlanets that removes every group and builds the
\* snapshot's bodies anew.
updatePlanetsRebuild(m, sceneDefined, data, speeds) ==
    LET start == [m EXCEPT !.log = Append(@, Step("updatePlanets", "", ""))]
        removed == RemoveOld(start, sceneDefined, Keys(start.planets), <<>>)
    IN  AddNew(removed, sceneDefined, data, speeds, 1)

updatePlanets(m, sceneDefined, data, speeds) ==
    LET start == [m EXCEPT !.log = Append(@, Step("updatePlanets", "", ""))]
        removed == RemoveOld(start, sceneDefined, Keys(start.planets),
                             currentPlanetIds(data))
    IN  AddNew(removed, sceneDefined, data, speeds, 1)

\* ---------------------------------------------------------------- entity
\* The uniforms createAiEntity gives the entity's ShaderMaterial.
createAiEntity == [uTime |-> 0, uAudioData |-> Null, uState |-> 0]

\* Variant of targetState in which speaking wins over listening.
targetStateSpeakingFirst(listening, speaking) ==
    IF speaking THEN 2 ELSE IF listening THEN 1 ELSE 0

\* targetState of _animate: 1 when listening, else 2 when speaking, else 0.
targetState(listening, speaking) ==
    IF listening THEN 1 ELSE IF speaking THEN 2 ELSE 0

\* The entity animation of _animate at time t, on the uniforms u.
AnimateEntity(u, t, listening, speaking) ==
    [u EXCEPT !.uTime = t, !.uState = targetState(listening, speaking)]

\* ---------------------------------------------------- single-planet scene
\* The single-planet variant of the program: AxeeInterface of src/index.tsx
\* holds one planetData and renders it into the AxeeVisuals3D of
\* src/ai-entity-shader.ts, which shows at most one planet.

\* An optional value: <<>> for null, <<x>> for the object x.
None == <<>>
Some(x) == <<x>>

\* The parsed planets the model distinguishes: without and with rings, and
\* a JSON value that has no visualization object.
SinglePlanets ==
    {[visualization |-> TRUE, hasRings |-> FALSE],
     [visualization |-> TRUE, hasRings |-> TRUE],
     [visualization |-> FALSE, hasRings |-> FALSE]}

SinglePropNames == {"planetData", "isScanning"}

\* AxeeInterface after construction.
singleInterfaceInit ==
    [isLoading |-> FALSE, planetData |-> None, error |-> Null, requests |-> 0,
     statusMessage |-> "Awaiting Synthesis Command",
     keplerTimeouts |-> 0, calibratingTimeouts |-> 0]

\* AxeeVisuals3D after construction: no scene yet, every reactive property
\* counts as changed for the first update.
singleVisualsInit ==
    [updatesEnabled |-> FALSE, changed |-> SinglePropNames,
     sceneDefined |-> FALSE, planetData |-> None, isScanning |-> FALSE,
     planet |-> None, attached |-> <<>>, elapsed |-> 0, threw |-> FALSE]

\* ------------------------------------------------------------------ Init
DefaultPosition == <<0, 15, 40>>
Origin == <<0, 0, 0>>
FocusOffset == <<0, 3, 10>>

\* The state after construction: every reactive property holds its initial
\* value and counts as changed for the first update; nothing of the scene
\* exists yet (autoRotate, decorationsVisible, cameraPosition,
\* controlsTarget and uniforms are meaningful only once initialized, and
\* hold the values init gives them).
Init ==
    /\ neuralNetwork = 0
    /\ networks = <<>>
    /\ connected = FALSE
    /\ updatesEnabled = FALSE
    /\ changedProperties = PropNames
    /\ initialized = FALSE
    /\ planetsData = <<>>
    /\ selectedPlanetId = Null
    /\ isScanning = FALSE
    /\ micStream = Null
    /\ planets = <<>>
    /\ removedGroups = <<>>
    /\ sceneChildren = <<>>
    /\ sharedDisposed = {}
    /\ controlsDisposed = FALSE
    /\ rendererDisposed = FALSE
    /\ resizeListener = FALSE
    /\ animationFrameId = 0
    /\ rafPending = {}
    /\ elapsed = 0
    /\ autoRotate = FALSE
    /\ targetPosition = Origin
    /\ targetLookAt = Origin
    /\ decorationsVisible = FALSE
    /\ cameraPosition = Scaled(DefaultPosition)
    /\ controlsTarget = Scaled(Origin)
    /\ rayOrigin = Scaled(Origin)
    /\ intersects = <<>>
    /\ hoveredPlanetId = Null
    /\ cursor = ""
    /\ tooltipDisplay = ""
    /\ isListening = FALSE
    /\ isSpeaking = FALSE
    /\ uniforms = createAiEntity
    /\ discoveredPlanets = <<>>
    /\ hostPlanets = Null
    /\ hostError = Null
    /\ inFlight = 0
    /\ hasStartedDiscovery = FALSE
    /\ now = 1
    /\ recognition = "idle"
    /\ micRequests = 0
    /\ orphanStreams = 0
    /\ singleInterface = singleInterfaceInit
    /\ singleVisuals = singleVisualsInit
    /\ outcome = Null
    /\ sameSnapshot = FALSE
    /\ log = <<>>

sceneVars == <<planets, removedGroups, sceneChildren>>
disposalVars == <<sharedDisposed, controlsDisposed, rendererDisposed>>
frameVars == <<animationFrameId, rafPending, elapsed>>
cameraVars == <<autoRotate, targetPosition, targetLookAt>>
historyVars == <<outcome, sameSnapshot>>
poseVars == <<cameraPosition, controlsTarget>>
hoverVars == <<rayOrigin, intersects, hoveredPlanetId, cursor, tooltipDisplay>>
interactionVars == <<isListening, isSpeaking>>
hostVars == <<discoveredPlanets, hostPlanets, hostError>>
requestVars == <<inFlight, hasStartedDiscovery, now, recognition, micRequests,
                 orphanStreams>>
singleVars == <<singleInterface, singleVisuals>>
networkVars == <<neuralNetwork, networks>>

\* createNeuralNetwork on n = [neuralNetwork, networks]: a network that
\* exists is removed from the scene, its geometry and its material are
\* disposed and the field is cleared; then a new, hidden LineSegments is made,
\* stored in the field and added to the scene.
createNeuralNetworkLeaky(n) ==
    [neuralNetwork |-> Len(n.networks) + 1,
     networks |-> Append(n.networks,
                         [attached |-> TRUE, visible |-> FALSE,
                          disposed |-> {}])]

createNeuralNetwork(n) ==
    LET old == n.neuralNetwork
        cleared == IF old = 0 THEN n.networks
                   ELSE [n.networks EXCEPT
                           ![old].attached = FALSE,
                           ![old].disposed = @ \cup {"geometry", "material"}]
    IN  [neuralNetwork |-> Len(cleared) + 1,
         networks |-> Append(cleared,
                             [attached |-> TRUE, visible |-> FALSE,
                              disposed |-> {}])]

\* willUpdate's `if (this.neuralNetwork) this.neuralNetwork.visible = ...`.
networkVisible(nets, current, scanning) ==
    IF current = 0 THEN nets
    ELSE [nets EXCEPT ![current].visible = scanning]

\* The element was connected and then removed from the document.
tornDown == updatesEnabled /\ ~connected

\* Variant of the planet animation that lets a body spiral outwards: each
\* frame adds delta to its orbital radius.
AnimatePlanetsSpiral(pl, delta, t) ==
    [i \in 1..Len(pl) |->
        [pl[i] EXCEPT
           !.rotationY = @ + delta,
           !.orbitalRadius = @ + delta,
           !.position = OrbitPosition(t, pl[i].orbitSpeed, pl[i].orbitalRadius)]]

\* Variant of the planet animation that accumulates: each frame moves a
\* body on from where it is by delta * orbitSpeed quarter turns.
RECURSIVE QuarterTurns(_, _)
QuarterTurns(p, k) ==
    IF k = 0 THEN p ELSE QuarterTurns(<<-p[3], 0, p[1]>>, k - 1)

AnimatePlanetsAccumulate(pl, delta, t) ==
    [i \in 1..Len(pl) |->
        [pl[i] EXCEPT
           !.rotationY = @ + delta,
           !.position = QuarterTurns(@, (delta * pl[i].orbitSpeed) % 4)]]

\* The planet animation of _animate: every group of the Map turns by
\* delta * 0.5 (rotationY counts halves) and is placed on its orbit for
\* time t.
AnimatePlanets(pl, delta, t) ==
    [i \in 1..Len(pl) |->
        [pl[i] EXCEPT
           !.rotationY = @ + delta,
           !.position = OrbitPosition(t, pl[i].orbitSpeed, pl[i].orbitalRadius)]]

\* Variant of focusOnSelectedPlanet that commands the offset pose without
\* the body's position.
focusOnOffset(c, controlsDefined, selected, pl) ==
    IF ~controlsDefined THEN c
    ELSE IF selected # Null
      THEN IF Has(pl, selected)
             THEN [autoRotate |-> FALSE,
                   targetPosition |-> FocusOffset,
                   targetLookAt |-> Get(pl, selected).position]
             ELSE [c EXCEPT !.autoRotate = FALSE]
      ELSE [autoRotate |-> TRUE,
            targetPosition |-> DefaultPosition,
            targetLookAt |-> Origin]

\* focusOnSelectedPlanet, on a record c of autoRotate, targetPosition and
\* targetLookAt.
focusOnSelectedPlanet(c, controlsDefined, selected, pl) ==
    IF ~controlsDefined THEN c
    ELSE IF selected # Null
      THEN IF Has(pl, selected)
             THEN [autoRotate |-> FALSE,
                   targetPosition |-> VecAdd(Get(pl, selected).position,
                                             FocusOffset),
                   targetLookAt |-> Get(pl, selected).position]
             ELSE [c EXCEPT !.autoRotate = FALSE]
      ELSE [autoRotate |-> TRUE,
            targetPosition |-> DefaultPosition,
            targetLookAt |-> Origin]

\* The steps of one frame that gets past the guard of _animate, in program
\* order.
FrameSteps ==
    <<Step("requestAnimationFrame", "", ""),
      Step("animatePlanets", "", ""),
      Step("lerp", "", "camera.position"),
      Step("lerp", "", "controls.target"),
      Step("hitTest", "", ""),
      Step("setUniforms", "", "aiEntity"),
      Step("render", "", "")>>

\* Variant of the hit test that builds the ray before the camera is
\* interpolated.
setFromCameraBeforeLerp(positionAtFrameStart, positionAfterLerp) ==
    positionAtFrameStart

\* raycaster.setFromCamera in _animate: the ray starts at the position the
\* camera has when the hit test runs, after the frame's lerp.
setFromCamera(positionAtFrameStart, positionAfterLerp) == positionAfterLerp

\* The meshes of the groups of the Map, each with the group it is a child of.
MeshesIn(pl) ==
    UNION {{[object |-> MeshesOf(pl[i].hasRings)[k], parent |-> pl[i].id] :
               k \in 1..Len(MeshesOf(pl[i].hasRings))} : i \in 1..Len(pl)}

\* What raycaster.intersectObjects(planets, true) can return, nearest first,
\* for some place of the pointer and the camera: nothing, one mesh, or the
\* cores of two bodies one behind the other.
IntersectLists(pl) ==
    LET cores == {h \in MeshesIn(pl) : h.object = "core"}
    IN  ({<<>>} \cup {<<h>> : h \in MeshesIn(pl)})
        \cup {q \in {<<h1, h2>> : h1, h2 \in cores} : q[1] # q[2]}

\* The raycast result of the frame that init runs.  The pointer is still at
\* the centre of the view and the camera looks at the origin, so the ray
\* runs from the camera to the origin.  The Map then holds only groups that
\* never reached the scene (their scene.add threw); such a group keeps an
\* identity world matrix, which places its meshes at the origin: the ray
\* meets their cores, the largest first and equal ones in Map order.
FirstFrameIntersects(pl) ==
    LET core(g) == [object |-> "core", parent |-> g.id]
        ofSize(z) == SelectSeq(pl, LAMBDA g : g.planetSize = z)
        inOrder == ofSize(planetSize("Gas Giant")) \o ofSize(planetSize("Rocky"))
    IN  [i \in 1..Len(inOrder) |-> core(inOrder[i])]

\* The hover logic of _animate on the raycast result hits: the new
\* hoveredPlanetId, cursor and tooltip display; without a tooltip element
\* the display keeps its value.
\* Variant of the hover logic that takes the farthest intersection.
HoverLogicFarthest(hits, pl, tooltipElement, display) ==
    IF hits # <<>> /\ Has(pl, hits[Len(hits)].parent)
      THEN [hoveredPlanetId |-> hits[Len(hits)].parent,
            cursor |-> "pointer",
            tooltipDisplay |-> IF tooltipElement THEN "block" ELSE display]
      ELSE [hoveredPlanetId |-> Null,
            cursor |-> "auto",
            tooltipDisplay |-> IF tooltipElement THEN "none" ELSE display]

HoverLogic(hits, pl, tooltipElement, display) ==
    IF hits # <<>> /\ Has(pl, hits[1].parent)
      THEN [hoveredPlanetId |-> hits[1].parent,
            cursor |-> "pointer",
            tooltipDisplay |-> IF tooltipElement THEN "block" ELSE display]
      ELSE [hoveredPlanetId |-> Null,
            cursor |-> "auto",
            tooltipDisplay |-> IF tooltipElement THEN "none" ELSE display]

\* requestAnimationFrame returns a handle that identifies no other request:
\* the lowest one that is neither pending nor still held in animationFrameId.
requestAnimationFrame(pending, held) ==
    CHOOSE f \in 1..(Cardinality(pending) + 2) :
        /\ f \notin pending \cup {held}
        /\ \A h \in 1..(f - 1) : h \in pending \cup {held}

\* The results of Math.random() in one update cycle, by snapshot position.
\* Only createPlanet draws, and only for the first record of an id that is
\* not in the Map; the other positions draw nothing (shown as the least
\* speed).
RandomDraws(changed, data, pl) ==
    {f \in [1..Len(data) -> Speeds] :
        \A i \in 1..Len(data) :
            (\/ "planetsData" \notin changed
             \/ Has(pl, data[i].celestial_body_id)
             \/ \E j \in 1..(i - 1) :
                   data[j].celestial_body_id = data[i].celestial_body_id)
            => \A v \in Speeds : f[i] <= v}

\* One update cycle of the element for the changed properties `changed`,
\* reading the property values data, selected and scanning:
\* willUpdate(changed), then, on the first cycle that completes,
\* firstUpdated() -> init() -> _animate().  An error thrown by willUpdate
\* aborts the cycle: the changes are consumed and firstUpdated is left for
\* a later cycle.
UpdateCycle(changed, data, selected, scanning) ==
    \E speeds \in RandomDraws(changed, data, planets) :
    \E m1 \in {IF "planetsData" \in changed
                 THEN updatePlanets([planets |-> planets, removed |-> <<>>,
                                     children |-> sceneChildren,
                                     log |-> <<>>, threw |-> FALSE],
                                    initialized, data, speeds)
                 ELSE [planets |-> planets, removed |-> <<>>,
                       children |-> sceneChildren, log |-> <<>>,
                       threw |-> FALSE]} :
    \E c1 \in {IF ~m1.threw /\ "selectedPlanetId" \in changed
                 THEN focusOnSelectedPlanet(
                          [autoRotate |-> autoRotate,
                           targetPosition |-> targetPosition,
                           targetLookAt |-> targetLookAt],
                          initialized, selected, m1.planets)
                 ELSE [autoRotate |-> autoRotate,
                       targetPosition |-> targetPosition,
                       targetLookAt |-> targetLookAt]} :
    \E hits \in {FirstFrameIntersects(m1.planets)} :
        LET first == ~m1.threw /\ ~initialized
            frame == requestAnimationFrame(rafPending, animationFrameId)
            hover == HoverLogic(hits, m1.planets, FALSE, tooltipDisplay)
        IN  /\ changedProperties' = {}
            /\ removedGroups' = m1.removed
            /\ sceneChildren' = m1.children
            /\ targetPosition' = c1.targetPosition
            /\ targetLookAt' = c1.targetLookAt
            /\ outcome' = IF "planetsData" \notin changed THEN outcome
                          ELSE IF m1.threw THEN "threw" ELSE "returned"
            /\ IF first
                 THEN \* init(), whose last statement is this._animate():
                      \* the clock starts, so this frame has t = delta = 0
                      /\ initialized' = TRUE
                      /\ resizeListener' = TRUE
                      /\ autoRotate' = TRUE
                      /\ decorationsVisible' = FALSE
                      /\ LET n == createNeuralNetwork(
                                      [neuralNetwork |-> neuralNetwork,
                                       networks |-> networks])
                         IN  /\ neuralNetwork' = n.neuralNetwork
                             /\ networks' = n.networks
                      /\ animationFrameId' = frame
                      /\ rafPending' = rafPending \cup {frame}
                      /\ planets' = AnimatePlanets(m1.planets, 0, elapsed)
                      \* camera.position.set(0, 15, 40), then the frame's
                      \* lerps and hit test; the tooltip element is looked
                      \* up only after init
                      /\ cameraPosition' = lerp(Scaled(DefaultPosition),
                                                c1.targetPosition)
                      /\ controlsTarget' = lerp(Scaled(Origin), c1.targetLookAt)
                      /\ rayOrigin' = setFromCamera(cameraPosition, cameraPosition')
                      /\ intersects' = hits
                      /\ hoveredPlanetId' = hover.hoveredPlanetId
                      /\ cursor' = hover.cursor
                      /\ tooltipDisplay' = hover.tooltipDisplay
                      /\ uniforms' = AnimateEntity(createAiEntity, elapsed,
                                                   isListening', isSpeaking')
                      /\ log' = (m1.log \o <<Step("init", "", "")>>) \o FrameSteps
                 ELSE /\ planets' = m1.planets
                      /\ UNCHANGED <<poseVars, hoverVars, uniforms>>
                      /\ autoRotate' = c1.autoRotate
                      /\ decorationsVisible' =
                           IF ~m1.threw /\ initialized /\ "isScanning" \in changed
                             THEN scanning ELSE decorationsVisible
                      /\ networks' =
                           IF ~m1.threw /\ initialized /\ "isScanning" \in changed
                             THEN networkVisible(networks, neuralNetwork, scanning)
                             ELSE networks
                      /\ neuralNetwork' = neuralNetwork
                      /\ log' = m1.log
                      /\ UNCHANGED <<initialized, resizeListener,
                                     animationFrameId, rafPending>>
            /\ UNCHANGED <<connected, updatesEnabled, disposalVars, elapsed,
                           hostVars, requestVars, singleVars>>

\* A property assignment before the element was ever connected only marks
\* the property as changed; the update waits for the first connect.
Pending(name) ==
    /\ changedProperties' = changedProperties \cup {name}
    /\ outcome' = outcome
    /\ UNCHANGED <<connected, updatesEnabled, initialized, sceneVars,
                   disposalVars, resizeListener, frameVars, cameraVars,
                   decorationsVisible, poseVars, hoverVars, uniforms,
                   hostVars, requestVars, singleVars, networkVars, log>>

\* ------------------------------------------------- property assignments
\* The host assigns a reactive property, which it does until it removes the
\* element.  An array is compared by identity, so assigning an equal
\* snapshot is a change too; a primitive changes only on a new value.  Once
\* updates are enabled, the update cycle an assignment schedules is a
\* microtask that runs before any other handler: the assignment and its
\* cycle are one step.
AssignPlanetsData(snapshots) ==
    \E s \in snapshots :
        /\ ~tornDown
        /\ planetsData' = s
        /\ sameSnapshot' = (outcome # Null /\ s = planetsData)
        /\ UNCHANGED <<selectedPlanetId, isScanning, micStream, interactionVars>>
        /\ IF updatesEnabled
             THEN UpdateCycle(changedProperties \cup {"planetsData"},
                              s, selectedPlanetId, isScanning)
             ELSE Pending("planetsData")

\* The host assigns any snapshot, or one in which no id occurs twice.
SetPlanetsData == AssignPlanetsData(Snapshots)

SetUniqueSnapshot == AssignPlanetsData(UniqueSnapshots)

SetDiscoverySnapshot == AssignPlanetsData(DiscoverySnapshots)

SetAnySnapshot == AssignPlanetsData(AnySnapshots)

SetSelectedPlanetId ==
    \E v \in Ids \cup {Null} :
        /\ ~tornDown
        /\ v # selectedPlanetId
        /\ selectedPlanetId' = v
        /\ UNCHANGED <<planetsData, isScanning, micStream, interactionVars,
                       sameSnapshot>>
        /\ IF updatesEnabled
             THEN UpdateCycle(changedProperties \cup {"selectedPlanetId"},
                              planetsData, v, isScanning)
             ELSE Pending("selectedPlanetId")

SetIsScanning ==
    /\ ~tornDown
    /\ isScanning' = ~isScanning
    /\ UNCHANGED <<planetsData, selectedPlanetId, micStream, interactionVars,
                   sameSnapshot>>
    /\ IF updatesEnabled
         THEN UpdateCycle(changedProperties \cup {"isScanning"},
                          planetsData, selectedPlanetId, ~isScanning)
         ELSE Pending("isScanning")

\* micStream is Null or a MediaStream, modelled by the state of its tracks.
SetMicStream ==
    \E v \in {Null, "live"} :
        /\ ~tornDown
        /\ ~(v = Null /\ micStream = Null)
        /\ micStream' = v
        /\ UNCHANGED <<planetsData, selectedPlanetId, isScanning,
                       interactionVars, sameSnapshot>>
        /\ IF updatesEnabled
             THEN UpdateCycle(changedProperties \cup {"micStream"},
                              planetsData, selectedPlanetId, isScanning)
             ELSE Pending("micStream")

\* The update cycle for the changes made before the first connect.  It was
\* scheduled by the connect and runs even if the element has been removed
\* in the meantime.
Update ==
    /\ updatesEnabled
    /\ changedProperties # {}
    /\ UNCHANGED <<planetsData, selectedPlanetId, isScanning, micStream,
                   interactionVars, sameSnapshot>>
    /\ UpdateCycle(changedProperties, planetsData, selectedPlanetId, isScanning)

\* ------------------------------------------------------------- lifecycle
connectedCallback ==
    /\ ~updatesEnabled
    /\ connected' = TRUE
    /\ updatesEnabled' = TRUE
    /\ log' = <<Step("addListener", "", "pointermove"),
                Step("addListener", "", "click")>>
    /\ removedGroups' = <<>>
    /\ UNCHANGED <<changedProperties, initialized, planetsData,
                   selectedPlanetId, isScanning, micStream, planets,
                   sceneChildren, disposalVars, resizeListener, frameVars,
                   cameraVars, decorationsVisible, poseVars, hoverVars,
                   interactionVars, uniforms, hostVars, requestVars, singleVars, networkVars, historyVars>>

\* Variant of _animate that requests the next frame twice, at its start and
\* again at its end.
FrameSchedulesTwice(pointerOnBodies) ==
    /\ changedProperties = {}
    /\ \E f \in rafPending, delta \in Deltas :
       \E hits \in (IF pointerOnBodies THEN IntersectLists(planets) ELSE {<<>>}) :
        LET frame == requestAnimationFrame(rafPending \ {f}, animationFrameId)
            again == requestAnimationFrame((rafPending \ {f}) \cup {frame}, frame)
            hover == HoverLogic(hits, planets, TRUE, tooltipDisplay)
        IN  /\ elapsed + delta <= MaxElapsed
            /\ rafPending' = (rafPending \ {f}) \cup {frame, again}
            /\ animationFrameId' = again
            /\ elapsed' = elapsed + delta
            /\ planets' = AnimatePlanets(planets, delta, elapsed + delta)
            /\ cameraPosition' = lerp(cameraPosition, targetPosition)
            /\ controlsTarget' = lerp(controlsTarget, targetLookAt)
            /\ rayOrigin' = setFromCamera(cameraPosition, cameraPosition')
            /\ intersects' = hits
            /\ hoveredPlanetId' = hover.hoveredPlanetId
            /\ cursor' = hover.cursor
            /\ tooltipDisplay' = hover.tooltipDisplay
            /\ uniforms' = AnimateEntity(uniforms, elapsed + delta,
                                         isListening, isSpeaking)
            /\ removedGroups' = <<>>
            /\ log' = FrameSteps
            /\ UNCHANGED <<connected, updatesEnabled, changedProperties,
                           initialized, planetsData, selectedPlanetId,
                           isScanning, micStream, sceneChildren,
                           disposalVars, resizeListener, cameraVars,
                           decorationsVisible, interactionVars, hostVars, requestVars, singleVars, networkVars,
                           historyVars>>

\* A scheduled frame callback runs: _animate.  It runs between update
\* cycles (an update is a microtask and precedes the next frame).  The
\* pointer either rests off the bodies, so that the ray meets none, or is
\* anywhere.
Frame(pointerOnBodies) ==
    /\ changedProperties = {}
    /\ \E f \in rafPending, delta \in Deltas :
       \E hits \in (IF pointerOnBodies THEN IntersectLists(planets) ELSE {<<>>}) :
        LET frame == requestAnimationFrame(rafPending \ {f}, animationFrameId)
            hover == HoverLogic(hits, planets, TRUE, tooltipDisplay)
        IN  /\ elapsed + delta <= MaxElapsed
            /\ rafPending' = (rafPending \ {f}) \cup {frame}
            /\ animationFrameId' = frame
            /\ elapsed' = elapsed + delta
            /\ planets' = AnimatePlanets(planets, delta, elapsed + delta)
            /\ cameraPosition' = lerp(cameraPosition, targetPosition)
            /\ controlsTarget' = lerp(controlsTarget, targetLookAt)
            /\ rayOrigin' = setFromCamera(cameraPosition, cameraPosition')
            /\ intersects' = hits
            /\ hoveredPlanetId' = hover.hoveredPlanetId
            /\ cursor' = hover.cursor
            /\ tooltipDisplay' = hover.tooltipDisplay
            /\ uniforms' = AnimateEntity(uniforms, elapsed + delta,
                                         isListening, isSpeaking)
            /\ removedGroups' = <<>>
            /\ log' = FrameSteps
            /\ UNCHANGED <<connected, updatesEnabled, changedProperties,
                           initialized, planetsData, selectedPlanetId,
                           isScanning, micStream, sceneChildren,
                           disposalVars, resizeListener, cameraVars,
                           decorationsVisible, interactionVars, hostVars, requestVars, singleVars, networkVars,
                           historyVars>>

animate == Frame(FALSE)

animatePointer == Frame(TRUE)

\* A click on the element, while its click listener is registered.
\* Variant of the click handler that dispatches whatever hoveredPlanetId is.
onCanvasClickAlways ==
    /\ connected
    /\ log' = <<Step("click", "", ""),
                Step("dispatchEvent", hoveredPlanetId, "planet-selected")>>
    /\ removedGroups' = <<>>
    /\ UNCHANGED <<connected, updatesEnabled, changedProperties, initialized,
                   planetsData, selectedPlanetId, isScanning, micStream,
                   planets, sceneChildren, disposalVars, resizeListener,
                   frameVars, cameraVars, decorationsVisible, poseVars,
                   hoverVars, interactionVars, uniforms, hostVars, requestVars, singleVars, networkVars,
                   historyVars>>

onCanvasClick ==
    /\ connected
    /\ log' = <<Step("click", "", "")>>
               \o (IF hoveredPlanetId # Null
                     THEN <<Step("dispatchEvent", hoveredPlanetId, "planet-selected")>>
                     ELSE <<>>)
    /\ removedGroups' = <<>>
    /\ UNCHANGED <<connected, updatesEnabled, changedProperties, initialized,
                   planetsData, selectedPlanetId, isScanning, micStream,
                   planets, sceneChildren, disposalVars, resizeListener,
                   frameVars, cameraVars, decorationsVisible, poseVars,
                   hoverVars, interactionVars, uniforms, hostVars, requestVars, singleVars, networkVars,
                   historyVars>>

\* ---------------------------------------------------------------- host
\* The orchestrator (src/unnamed/part_001) renders the element with
\*   .planets=${Array.from(this.discoveredPlanets.values())}
\*   .selectedPlanetId  .isScanning=${this.isLoading}  .micStream
\*   .isListening  .isSpeaking
\* `planets` is no reactive property of the element but the field that
\* holds its Map: the binding replaces the Map by the Array (hostPlanets)
\* and requests no update, and planetsData is never assigned.

\* The host's first render creates the element, assigns the bound values
\* (all but `planets` equal the element's initial values) and puts it into
\* the document: connectedCallback.  The first update follows (Update).
hostFirstRender ==
    /\ ~updatesEnabled
    /\ hostPlanets = Null
    /\ hostPlanets' = discoveredPlanets
    /\ connected' = TRUE
    /\ updatesEnabled' = TRUE
    /\ log' = <<Step("addListener", "", "pointermove"),
                Step("addListener", "", "click")>>
    /\ removedGroups' = <<>>
    /\ UNCHANGED <<changedProperties, initialized, planetsData,
                   selectedPlanetId, isScanning, micStream, planets,
                   sceneChildren, disposalVars, resizeListener, frameVars,
                   cameraVars, decorationsVisible, poseVars, hoverVars,
                   interactionVars, uniforms, discoveredPlanets, hostError,
                   requestVars, singleVars, networkVars, historyVars>>

\* The update cycle of the initialized element after a later render of the
\* host changed the properties `changed`; `planets` holds an Array.
\* willUpdate: focusOnSelectedPlanet sets autoRotate and, for a selected id,
\* calls this.planets.get, which an Array does not have: the TypeError ends
\* willUpdate before the isScanning branch.  `before` are the steps the
\* host's handler recorded before it rendered.
HostUpdateCycle(before, changed, selected, scanning) ==
    LET focus == "selectedPlanetId" \in changed
        threw == focus /\ selected # Null
    IN  /\ changedProperties' = {}
        /\ autoRotate' = IF focus THEN selected = Null ELSE autoRotate
        /\ targetPosition' = IF focus /\ selected = Null
                               THEN DefaultPosition ELSE targetPosition
        /\ targetLookAt' = IF focus /\ selected = Null
                             THEN Origin ELSE targetLookAt
        /\ decorationsVisible' = IF ~threw /\ "isScanning" \in changed
                                   THEN scanning ELSE decorationsVisible
        /\ networks' = IF ~threw /\ "isScanning" \in changed
                         THEN networkVisible(networks, neuralNetwork, scanning)
                         ELSE networks
        /\ neuralNetwork' = neuralNetwork
        /\ log' = before \o (IF threw
                               THEN <<Step("throw", selected, "planets.get")>>
                               ELSE <<>>)
        /\ removedGroups' = <<>>
        /\ UNCHANGED <<connected, updatesEnabled, initialized, planetsData,
                       planets, sceneChildren, disposalVars, resizeListener,
                       frameVars, poseVars, hoverVars, uniforms, singleVars,
                       historyVars>>

\* `axee-${Date.now()}` for the clock readings the model distinguishes.
TimeIds == <<"A", "B">>

axeeId(t) == TimeIds[t]

\* Whether the Map m has an entry under id.
hasId(m, id) == \E i \in 1..Len(m) : m[i].celestial_body_id = id

\* Map.set on a copy of the Map m, m in insertion order: the entry of a key
\* that is present is replaced where it stands, a new key goes to the end.
mapSet(m, planet) ==
    IF hasId(m, planet.celestial_body_id)
      THEN LET i == CHOOSE j \in 1..Len(m) :
                        m[j].celestial_body_id = planet.celestial_body_id
           IN  (SubSeq(m, 1, i - 1) \o <<planet>>) \o SubSeq(m, i + 1, Len(m))
      ELSE Append(m, planet)

\* The clock when a request is sent: a request is answered later than the
\* millisecond in which it is sent, so the answers of this request and of
\* the requests after it read a time after the last discovery's.
clockAtRequest(t, m) ==
    IF t <= Len(TimeIds) /\ hasId(m, axeeId(t)) THEN t + 1 ELSE t

\* synthesizeExoplanet up to its await: isLoading = true, error = null, and
\* the request is sent.  Every caller passes a non-empty prompt, and the
\* host renders (isLoading is bound to the element's isScanning).
synthesizeExoplanet ==
    /\ initialized /\ connected
    /\ inFlight < MaxRequests
    /\ inFlight' = inFlight + 1
    /\ isScanning' = TRUE
    /\ hostError' = Null
    /\ hostPlanets' = discoveredPlanets
    /\ now' = clockAtRequest(now, discoveredPlanets)
    /\ UNCHANGED <<selectedPlanetId, micStream, interactionVars,
                   discoveredPlanets, recognition, micRequests,
                   orphanStreams>>
    /\ HostUpdateCycle(<<Step("generateContent", "", "")>>,
                       IF isScanning THEN {} ELSE {"isScanning"},
                       selectedPlanetId, TRUE)

\* handleSynthesis from the 'Start Discovery' button or Enter in the input,
\* both disabled while isLoading or once the discovery has started:
\* startDiscoveryProcess sends the first request and starts the 20 s timer.
handleSynthesis ==
    /\ ~isScanning
    /\ ~hasStartedDiscovery
    /\ hasStartedDiscovery' = TRUE
    /\ synthesizeExoplanet

\* The 20 s interval of startDiscoveryProcess fires, whether or not an
\* earlier request has been answered.
discoveryInterval ==
    /\ hasStartedDiscovery
    /\ hasStartedDiscovery' = TRUE
    /\ synthesizeExoplanet

\* A response with a JSON object arrives for one of the requests: the new
\* planet gets the id `axee-${Date.now()}` (the clock reads t, no earlier than
\* the last discovery and later than every request sent), is set in a copy of discoveredPlanets
\* and selected, speak() sets isSpeaking, isLoading is reset; the host
\* renders.
synthesisSucceeds ==
    /\ initialized /\ connected
    /\ inFlight > 0
    /\ \E t \in now..Len(TimeIds), k \in 1..Len(Discoveries) :
        LET newPlanet == [Discoveries[k] EXCEPT !.celestial_body_id = axeeId(t)]
        IN  /\ now' = t
            /\ inFlight' = inFlight - 1
            /\ discoveredPlanets' = mapSet(discoveredPlanets, newPlanet)
            /\ hostPlanets' = discoveredPlanets'
            /\ selectedPlanetId' = newPlanet.celestial_body_id
            /\ isScanning' = FALSE
            /\ isSpeaking' = TRUE
            /\ UNCHANGED <<micStream, isListening, hostError,
                           hasStartedDiscovery, recognition, micRequests,
                           orphanStreams>>
            /\ HostUpdateCycle(
                   <<Step("discovery", newPlanet.celestial_body_id, "")>>,
                   (IF selectedPlanetId = newPlanet.celestial_body_id
                      THEN {} ELSE {"selectedPlanetId"})
                   \cup (IF isScanning THEN {"isScanning"} ELSE {})
                   \cup (IF isSpeaking THEN {} ELSE {"isSpeaking"}),
                   newPlanet.celestial_body_id, FALSE)

\* How a request can fail: generateContent rejects, the response text holds
\* no {...}, or JSON.parse throws a SyntaxError.
Failures == {"rejected", "no object", "unparsable"}

\* The message the catch block stores in `error`.
errorMessage(failure) ==
    IF failure = "unparsable"
      THEN "Synthesis Failed: Failed to parse AI response."
      ELSE IF failure = "no object"
        THEN "Synthesis Failed: AI response did not contain a valid JSON object."
        ELSE "Synthesis Failed: request failed"

\* Variant of the failure path that stores the half-built planet before it
\* reports the error.
synthesisFailsPartial ==
    /\ initialized /\ connected
    /\ inFlight > 0
    /\ \E failure \in Failures :
        /\ inFlight' = inFlight - 1
        /\ hostError' = errorMessage(failure)
        /\ isScanning' = FALSE
        /\ isSpeaking' = TRUE
        /\ discoveredPlanets' =
             mapSet(discoveredPlanets,
                    [Discoveries[1] EXCEPT !.celestial_body_id = axeeId(now)])
        /\ hostPlanets' = discoveredPlanets'
        /\ UNCHANGED <<selectedPlanetId, micStream, isListening,
                       hasStartedDiscovery, now, recognition,
                       micRequests, orphanStreams>>
        /\ HostUpdateCycle(<<Step("catch", "", failure)>>,
                           (IF isScanning THEN {"isScanning"} ELSE {})
                           \cup (IF isSpeaking THEN {} ELSE {"isSpeaking"}),
                           selectedPlanetId, FALSE)

\* A request fails: every throw of the try block precedes the state update,
\* so the catch block only records and speaks the error; finally resets
\* isLoading.
synthesisFails ==
    /\ initialized /\ connected
    /\ inFlight > 0
    /\ \E failure \in Failures :
        /\ inFlight' = inFlight - 1
        /\ hostError' = errorMessage(failure)
        /\ isScanning' = FALSE
        /\ isSpeaking' = TRUE
        /\ hostPlanets' = discoveredPlanets
        /\ UNCHANGED <<selectedPlanetId, micStream, isListening,
                       discoveredPlanets, hasStartedDiscovery, now, recognition,
                       micRequests, orphanStreams>>
        /\ HostUpdateCycle(<<Step("catch", "", failure)>>,
                           (IF isScanning THEN {"isScanning"} ELSE {})
                           \cup (IF isSpeaking THEN {} ELSE {"isSpeaking"}),
                           selectedPlanetId, FALSE)

\* utterance.onend / onerror
utteranceEnds ==
    /\ initialized /\ connected
    /\ isSpeaking
    /\ isSpeaking' = FALSE
    /\ hostPlanets' = discoveredPlanets
    /\ UNCHANGED <<selectedPlanetId, isScanning, micStream, isListening,
                   discoveredPlanets, hostError, requestVars, singleVars, networkVars>>
    /\ HostUpdateCycle(<<>>, {"isSpeaking"}, selectedPlanetId, isScanning)

\* handleVoiceCommand from the microphone button, which is rendered while
\* micStream is set and disabled once the discovery has started.  It
\* returns at once while listening; otherwise it cancels a running
\* utterance and calls recognition.start(), which throws if the session is
\* not idle.
handleVoiceCommand ==
    /\ initialized /\ connected
    /\ micStream # Null
    /\ ~hasStartedDiscovery
    /\ ~isListening
    /\ isSpeaking' = FALSE
    /\ recognition' = IF recognition = "idle" THEN "starting" ELSE recognition
    /\ hostPlanets' = discoveredPlanets
    /\ UNCHANGED <<selectedPlanetId, isScanning, micStream, isListening,
                   discoveredPlanets, hostError, inFlight, hasStartedDiscovery,
                   now, micRequests, orphanStreams>>
    /\ HostUpdateCycle(<<Step("recognition.start", "", recognition)>>,
                       IF isSpeaking THEN {"isSpeaking"} ELSE {},
                       selectedPlanetId, isScanning)

\* recognition.onstart
recognitionStarts ==
    /\ initialized /\ connected
    /\ recognition = "starting"
    /\ recognition' = "started"
    /\ isListening' = TRUE
    /\ hostPlanets' = discoveredPlanets
    /\ UNCHANGED <<selectedPlanetId, isScanning, micStream, isSpeaking,
                   discoveredPlanets, hostError, inFlight, hasStartedDiscovery,
                   now, micRequests, orphanStreams>>
    /\ HostUpdateCycle(<<>>, IF isListening THEN {} ELSE {"isListening"},
                       selectedPlanetId, isScanning)

\* recognition.onresult: the one result of the session (continuous is
\* false) goes to handleSynthesis, which here is not held back by the
\* disabled controls.
recognitionResult ==
    /\ recognition = "started"
    /\ recognition' = "ending"
    /\ hasStartedDiscovery' = TRUE
    /\ initialized /\ connected
    /\ inFlight < MaxRequests
    /\ inFlight' = inFlight + 1
    /\ isScanning' = TRUE
    /\ hostError' = Null
    /\ hostPlanets' = discoveredPlanets
    /\ now' = clockAtRequest(now, discoveredPlanets)
    /\ UNCHANGED <<selectedPlanetId, micStream, interactionVars,
                   discoveredPlanets, micRequests, orphanStreams>>
    /\ HostUpdateCycle(<<Step("generateContent", "", "")>>,
                       IF isScanning THEN {} ELSE {"isScanning"},
                       selectedPlanetId, TRUE)

\* recognition.onend, or onerror followed by onend: isListening is reset,
\* onerror also records the error.
recognitionEnds ==
    /\ initialized /\ connected
    /\ recognition # "idle"
    /\ recognition' = "idle"
    /\ isListening' = FALSE
    /\ \E failed \in BOOLEAN :
          hostError' = IF failed THEN "Voice error" ELSE hostError
    /\ hostPlanets' = discoveredPlanets
    /\ UNCHANGED <<selectedPlanetId, isScanning, micStream, isSpeaking,
                   discoveredPlanets, inFlight, hasStartedDiscovery, now,
                   micRequests, orphanStreams>>
    /\ HostUpdateCycle(<<>>, IF isListening THEN {"isListening"} ELSE {},
                       selectedPlanetId, isScanning)

\* Variant of enableAudio that drops the stream without stopping its tracks.
enableAudioDropStream ==
    /\ initialized /\ connected
    /\ IF micStream # Null
         THEN /\ micStream' = Null
              /\ UNCHANGED micRequests
              /\ HostUpdateCycle(<<>>, {"micStream"}, selectedPlanetId, isScanning)
         ELSE /\ micRequests < MaxRequests
              /\ micRequests' = micRequests + 1
              /\ UNCHANGED micStream
              /\ HostUpdateCycle(<<Step("getUserMedia", "", "")>>, {},
                                 selectedPlanetId, isScanning)
    /\ hostPlanets' = discoveredPlanets
    /\ UNCHANGED <<selectedPlanetId, isScanning, interactionVars,
                   discoveredPlanets, hostError, inFlight, hasStartedDiscovery,
                   now, recognition, orphanStreams>>

\* enableAudio from the audio button, up to its return or its await.  With
\* a stream attached it stops the stream's tracks and clears micStream;
\* otherwise it asks for the microphone and waits for the answer, also when
\* an earlier request is still waiting.  The element's setupAudioProcessing,
\* run on a change of micStream, has an empty body.
enableAudio ==
    /\ initialized /\ connected
    /\ IF micStream # Null
         THEN /\ micStream' = Null
              /\ UNCHANGED micRequests
              /\ HostUpdateCycle(<<Step("stopTracks", "", "micStream")>>,
                                 {"micStream"}, selectedPlanetId, isScanning)
         ELSE /\ micRequests < MaxRequests
              /\ micRequests' = micRequests + 1
              /\ UNCHANGED micStream
              /\ HostUpdateCycle(<<Step("getUserMedia", "", "")>>, {},
                                 selectedPlanetId, isScanning)
    /\ hostPlanets' = discoveredPlanets
    /\ UNCHANGED <<selectedPlanetId, isScanning, interactionVars,
                   discoveredPlanets, hostError, inFlight, hasStartedDiscovery,
                   now, recognition, orphanStreams>>

\* getUserMedia resolves: enableAudio resumes and stores the stream in
\* micStream, whatever micStream holds by then; a stream that was stored
\* before and is still capturing loses its only reference.
getUserMediaResolves ==
    /\ initialized /\ connected
    /\ micRequests > 0
    /\ orphanStreams < MaxRequests
    /\ micRequests' = micRequests - 1
    /\ micStream' = "live"
    /\ orphanStreams' = IF micStream = "live"
                          THEN orphanStreams + 1 ELSE orphanStreams
    /\ hostPlanets' = discoveredPlanets
    /\ UNCHANGED <<selectedPlanetId, isScanning, interactionVars,
                   discoveredPlanets, hostError, inFlight, hasStartedDiscovery,
                   now, recognition>>
    /\ HostUpdateCycle(<<Step("getUserMedia", "", "resolved")>>,
                       {"micStream"}, selectedPlanetId, isScanning)

\* getUserMedia rejects: the catch block records the error.
getUserMediaRejects ==
    /\ initialized /\ connected
    /\ micRequests > 0
    /\ micRequests' = micRequests - 1
    /\ hostError' = "Microphone access denied."
    /\ hostPlanets' = discoveredPlanets
    /\ UNCHANGED <<selectedPlanetId, isScanning, micStream, interactionVars,
                   discoveredPlanets, inFlight, hasStartedDiscovery, now,
                   recognition, orphanStreams>>
    /\ HostUpdateCycle(<<Step("enableAudio", "", "denied")>>, {},
                       selectedPlanetId, isScanning)

\* _animate while `planets` holds the host's Array: forEach visits the
\* PlanetData records, which have no rotation, so with a record in the
\* Array the frame ends in a TypeError right after it has requested the
\* next frame and read the clock; with an empty Array it runs as usual.
animateOverArray ==
    /\ hostPlanets # Null
    /\ IF hostPlanets = <<>>
         THEN Frame(FALSE)
         ELSE /\ changedProperties = {}
              /\ \E f \in rafPending, delta \in Deltas :
                  LET frame == requestAnimationFrame(rafPending \ {f},
                                                     animationFrameId)
                  IN  /\ elapsed + delta <= MaxElapsed
                      /\ rafPending' = (rafPending \ {f}) \cup {frame}
                      /\ animationFrameId' = frame
                      /\ elapsed' = elapsed + delta
                      /\ removedGroups' = <<>>
                      /\ log' = <<Step("requestAnimationFrame", "", ""),
                                  Step("throw", "", "group.rotation")>>
                      /\ UNCHANGED <<connected, updatesEnabled,
                                     changedProperties, initialized,
                                     planetsData, selectedPlanetId,
                                     isScanning, micStream, planets,
                                     sceneChildren, disposalVars,
                                     resizeListener, cameraVars,
                                     decorationsVisible, poseVars, hoverVars,
                                     interactionVars, uniforms, hostVars, requestVars, singleVars, networkVars,
                                     historyVars>>

RECURSIVE Flatten(_)
Flatten(qs) == IF qs = <<>> THEN <<>> ELSE Head(qs) \o Flatten(Tail(qs))

\* object instanceof THREE.Mesh || object instanceof THREE.LineSegments
DisposedAtTeardown(class) == class \in {"Mesh", "LineSegments"}

SharedDisposedByTraverse ==
    Flatten([i \in 1..Len(SharedObjects) |->
        IF DisposedAtTeardown(SharedObjects[i].class)
          THEN <<SharedObjects[i].name \o ".geometry",
                 SharedObjects[i].name \o ".material">>
          ELSE <<>>])

\* scene.traverse visits the scene's children in the order they were added:
\* the shared objects of init, then the attached planet groups.
TraverseSteps(pl, children) ==
    DisposeSteps("", SharedDisposedByTraverse)
    \o Flatten([i \in 1..Len(children) |->
          DisposeSteps(children[i],
                       DisposedByTraverse(Get(pl, children[i]).hasRings))])

\* Variant of disconnectedCallback's steps that releases the renderer before
\* it traverses the scene.
disconnectStepsRendererFirst(stream, sceneDefined, pl, children) ==
    ((<<Step("removeListener", "", "resize"),
        Step("removeListener", "", "pointermove"),
        Step("removeListener", "", "click"),
        Step("cancelAnimationFrame", "", "")>>
      \o (IF stream = Null THEN <<>>
          ELSE <<Step("stopTracks", "", "micStream")>>))
     \o (IF sceneDefined
           THEN <<Step("dispose", "", "controls"), Step("dispose", "", "renderer")>>
           ELSE <<>>))
    \o (IF sceneDefined THEN TraverseSteps(pl, children) ELSE <<>>)

\* The steps of disconnectedCallback, in program order; a step on an object
\* that does not exist (?.) is skipped, audioContext is never created.
disconnectSteps(stream, sceneDefined, pl, children) ==
    (((<<Step("removeListener", "", "resize"),
         Step("removeListener", "", "pointermove"),
         Step("removeListener", "", "click"),
         Step("cancelAnimationFrame", "", "")>>
      \o (IF stream = Null THEN <<>>
          ELSE <<Step("stopTracks", "", "micStream")>>))
     \o (IF sceneDefined THEN <<Step("dispose", "", "controls")>> ELSE <<>>))
    \o (IF sceneDefined THEN TraverseSteps(pl, children) ELSE <<>>))
   \o (IF sceneDefined THEN <<Step("dispose", "", "renderer")>> ELSE <<>>)

disconnectedCallback ==
    /\ connected
    /\ connected' = FALSE
    /\ resizeListener' = FALSE
    /\ rafPending' = rafPending \ {animationFrameId}
    /\ micStream' = IF micStream = Null THEN Null ELSE "stopped"
    /\ controlsDisposed' = (controlsDisposed \/ initialized)
    /\ rendererDisposed' = (rendererDisposed \/ initialized)
    /\ sharedDisposed' = IF initialized
                           THEN sharedDisposed \cup SeqRange(SharedDisposedByTraverse)
                           ELSE sharedDisposed
    /\ planets' = [i \in 1..Len(planets) |->
                    IF initialized /\ planets[i].id \in SeqRange(sceneChildren)
                      THEN [planets[i] EXCEPT !.disposed =
                              @ \cup SeqRange(DisposedByTraverse(planets[i].hasRings))]
                      ELSE planets[i]]
    /\ networks' = [i \in 1..Len(networks) |->
                     IF networks[i].attached
                       THEN [networks[i] EXCEPT !.disposed =
                               @ \cup {"geometry", "material"}]
                       ELSE networks[i]]
    /\ neuralNetwork' = neuralNetwork
    /\ removedGroups' = <<>>
    /\ log' = disconnectSteps(micStream, initialized, planets, sceneChildren)
    /\ UNCHANGED <<updatesEnabled, changedProperties, initialized,
                   planetsData, selectedPlanetId, isScanning,
                   sceneChildren, animationFrameId, elapsed, cameraVars,
                   decorationsVisible, poseVars, hoverVars, interactionVars,
                   uniforms, hostVars, requestVars, singleVars, historyVars>>

\* ------------------------------------------- single-planet scene: handlers
\* Everything that belongs to the multi-planet program.
galaxyVars ==
    <<connected, updatesEnabled, changedProperties, initialized, planetsData,
      selectedPlanetId, isScanning, micStream, sceneVars, disposalVars,
      resizeListener, frameVars, cameraVars, decorationsVisible, poseVars,
      hoverVars, interactionVars, uniforms, hostVars, requestVars,
      networkVars, historyVars, log>>

\* removePlanet of the single-planet scene: detaches this.planet and clears
\* the field; this.scene.remove throws while the scene does not exist.
singleRemovePlanet(v) ==
    IF v.planet = None THEN v
    ELSE IF ~v.sceneDefined THEN [v EXCEPT !.threw = TRUE]
    ELSE [v EXCEPT !.attached = Without(@, v.planet[1]), !.planet = None]

\* createPlanet of the single-planet scene: removePlanet, then this.planet
\* is the new group, the meshes are built from data.visualization (a
\* TypeError if data has none) and the group is added to the scene (a
\* TypeError while the scene does not exist).
singleCreatePlanet(v, data) ==
    LET removed == singleRemovePlanet(v)
        empty == [data |-> data, meshes |-> 0]
        group == [data |-> data, meshes |-> IF data.hasRings THEN 3 ELSE 2]
    IN  IF removed.threw THEN removed
        ELSE IF ~data.visualization
          THEN [removed EXCEPT !.planet = Some(empty), !.threw = TRUE]
        ELSE IF ~removed.sceneDefined
          THEN [removed EXCEPT !.planet = Some(group), !.threw = TRUE]
        ELSE [removed EXCEPT !.planet = Some(group),
                             !.attached = Append(@, group)]

\* willUpdate of the single-planet scene.
singleWillUpdate(v, changed) ==
    IF "planetData" \notin changed THEN v
    ELSE IF v.planetData # None
      THEN singleCreatePlanet(v, v.planetData[1])
      ELSE singleRemovePlanet(v)

\* One update cycle of the single-planet scene: willUpdate, then, on the
\* first cycle that completes, firstUpdated -> init, which creates the
\* scene and starts the frame loop.  A throw in willUpdate ends the cycle.
singleUpdateCycle(v, changed) ==
    LET w == singleWillUpdate([v EXCEPT !.threw = FALSE], changed)
    IN  [w EXCEPT !.changed = {},
                  !.sceneDefined = (@ \/ ~w.threw)]

\* A reactive property of the single-planet scene is assigned: once updates
\* are enabled its update cycle follows at once.
singleAssigned(v, name) ==
    IF v.updatesEnabled
      THEN singleUpdateCycle(v, v.changed \cup {name})
      ELSE [v EXCEPT !.changed = @ \cup {name}]

\* The single-planet scene is put into the document.
singleConnect ==
    /\ ~singleVisuals.updatesEnabled
    /\ singleVisuals' = [singleVisuals EXCEPT !.updatesEnabled = TRUE]
    /\ UNCHANGED <<singleInterface, galaxyVars>>

\* The update cycle for the changes made before the connect.
singleUpdate ==
    /\ singleVisuals.updatesEnabled
    /\ singleVisuals.changed # {}
    /\ singleVisuals' = singleUpdateCycle(singleVisuals, singleVisuals.changed)
    /\ UNCHANGED <<singleInterface, galaxyVars>>

\* planetData of the single-planet scene is assigned null or a new object.
singleSetPlanetData ==
    \E d \in {None} \cup {Some(p) : p \in SinglePlanets} :
        /\ ~(d = None /\ singleVisuals.planetData = None)
        /\ singleVisuals' =
             singleAssigned([singleVisuals EXCEPT !.planetData = d], "planetData")
        /\ UNCHANGED <<singleInterface, galaxyVars>>

singleSetIsScanning ==
    /\ singleVisuals' =
         singleAssigned([singleVisuals EXCEPT !.isScanning = ~@], "isScanning")
    /\ UNCHANGED <<singleInterface, galaxyVars>>

\* A frame of the single-planet scene, whose loop init starts: the clock
\* advances; the planet's rotation and position follow from it.
singleAnimate ==
    /\ singleVisuals.sceneDefined
    /\ singleVisuals.changed = {}
    /\ \E delta \in Deltas :
        /\ singleVisuals.elapsed + delta <= MaxElapsed
        /\ singleVisuals' = [singleVisuals EXCEPT !.elapsed = @ + delta]
    /\ UNCHANGED <<singleInterface, galaxyVars>>

\* The interface renders its state into the scene: planetData counts as
\* changed when the interface assigned another value, isScanning when
\* isLoading differs from what the scene holds.
singleRender(v, data, dataChanged, loading) ==
    LET changed == (IF dataChanged THEN {"planetData"} ELSE {})
                   \cup (IF loading # v.isScanning THEN {"isScanning"} ELSE {})
        w == [v EXCEPT !.planetData = data, !.isScanning = loading]
    IN  IF changed = {} THEN w ELSE singleUpdateCycle(w, w.changed \cup changed)

\* Variant of synthesizeExoplanet that keeps the previous planet while it
\* loads.
singleSynthesizeKeepsPlanet ==
    /\ singleVisuals.updatesEnabled
    /\ singleVisuals.changed = {}
    /\ ~singleInterface.isLoading
    /\ singleInterface.calibratingTimeouts < MaxRequests
    /\ singleInterface' =
         [singleInterface EXCEPT
            !.isLoading = TRUE,
            !.error = Null,
            !.statusMessage = "Accessing NASA Exoplanet Archive...",
            !.keplerTimeouts = @ + 1,
            !.calibratingTimeouts = @ + 1,
            !.requests = @ + 1]
    /\ singleVisuals' = singleRender(singleVisuals, singleInterface.planetData,
                                     FALSE, TRUE)
    /\ UNCHANGED galaxyVars

\* synthesizeExoplanet of src/index.tsx up to its await, from the button,
\* which is disabled while isLoading: isLoading = true, planetData = null,
\* error = null, and the two status timeouts (2 s and 4 s) are set; the
\* interface renders.
singleSynthesizeExoplanet ==
    /\ singleVisuals.updatesEnabled
    /\ singleVisuals.changed = {}
    /\ ~singleInterface.isLoading
    /\ singleInterface.calibratingTimeouts < MaxRequests
    /\ singleInterface' =
         [singleInterface EXCEPT
            !.isLoading = TRUE,
            !.planetData = None,
            !.error = Null,
            !.statusMessage = "Accessing NASA Exoplanet Archive...",
            !.keplerTimeouts = @ + 1,
            !.calibratingTimeouts = @ + 1,
            !.requests = @ + 1]
    /\ singleVisuals' = singleRender(singleVisuals, None,
                                     singleInterface.planetData # None, TRUE)
    /\ UNCHANGED galaxyVars

\* What the await of generateContent can bring: a rejection, or a response
\* whose text is no JSON, the JSON null, or a JSON value.
SingleResponses ==
    {[kind |-> k, value |-> p] :
        k \in {"rejected", "unparsable", "null"},
        p \in {[visualization |-> FALSE, hasRings |-> FALSE]}}
    \cup {[kind |-> "value", value |-> p] : p \in SinglePlanets}

\* The rest of the try block and the catch block for the response r, on
\* the interface state i: JSON.parse, planetData = data, then the status
\* message reads planetData.planetName, which throws on null.
singleSettle(i, r) ==
    LET failed == "Synthesis Failed. Check console for details."
    IN  IF r.kind = "rejected"
          THEN [i EXCEPT !.error = "Synthesis Failed: request failed",
                         !.statusMessage = failed]
        ELSE IF r.kind = "unparsable"
          THEN [i EXCEPT !.error = "Synthesis Failed: Failed to parse AI response.",
                         !.statusMessage = failed]
        ELSE IF r.kind = "null"
          THEN [i EXCEPT !.planetData = None,
                         !.error = "Synthesis Failed: Cannot read properties of null",
                         !.statusMessage = failed]
        ELSE [i EXCEPT !.planetData = Some(r.value),
                       !.statusMessage = "Synthesis Complete"]

\* The request settles: try and catch as above, finally isLoading = false;
\* the interface renders.
singleResponse ==
    /\ singleInterface.requests > 0
    /\ \E r \in SingleResponses :
        LET settled == singleSettle(singleInterface, r)
        IN  /\ singleInterface' = [settled EXCEPT !.isLoading = FALSE,
                                                  !.requests = @ - 1]
            /\ singleVisuals' = singleRender(singleVisuals, settled.planetData,
                                             r.kind = "value", FALSE)
    /\ UNCHANGED galaxyVars

\* One of the status timeouts fires, the 2 s one of a call before its 4 s
\* one: while isLoading it replaces the status message.
singleTimeout ==
    /\ \E late \in BOOLEAN :
        /\ IF late
             THEN singleInterface.calibratingTimeouts
                    > singleInterface.keplerTimeouts
             ELSE singleInterface.keplerTimeouts > 0
        /\ singleInterface' =
             [singleInterface EXCEPT
                !.keplerTimeouts = IF late THEN @ ELSE @ - 1,
                !.calibratingTimeouts = IF late THEN @ - 1 ELSE @,
                !.statusMessage =
                    IF ~singleInterface.isLoading THEN @
                    ELSE IF late THEN "Calibrating discovery algorithms..."
                    ELSE "Analyzing Kepler light curve data..."]
    /\ UNCHANGED <<singleVisuals, galaxyVars>>

\* The single-planet scene driven through its reactive properties.
NextSinglePlanet ==
    \/ singleConnect
    \/ singleUpdate
    \/ singleSetPlanetData
    \/ singleSetIsScanning
    \/ singleAnimate

SpecSinglePlanet == Init /\ [][NextSinglePlanet]_vars

\* The single-planet interface and the scene it renders.
NextSingleInterface ==
    \/ singleConnect
    \/ singleUpdate
    \/ singleSynthesizeExoplanet
    \/ singleResponse
    \/ singleTimeout
    \/ singleAnimate

SpecSingleInterface == Init /\ [][NextSingleInterface]_vars

\* The scene registry: snapshots of every shape are reconciled over the
\* element's lifecycle.
Next ==
    \/ SetPlanetsData
    \/ connectedCallback
    \/ Update
    \/ disconnectedCallback

Spec == Init /\ [][Next]_vars

\* The running scene: reconciles of a host's discoveries, selection changes
\* and frame ticks.
NextOrbit ==
    \/ SetDiscoverySnapshot
    \/ SetSelectedPlanetId
    \/ connectedCallback
    \/ Update
    \/ animate

SpecOrbit == Init /\ [][NextOrbit]_vars

\* The whole lifecycle, with every input of the element, up to teardown.
NextTeardown ==
    \/ SetUniqueSnapshot
    \/ SetIsScanning
    \/ SetMicStream
    \/ connectedCallback
    \/ Update
    \/ animate
    \/ disconnectedCallback

SpecTeardown == Init /\ [][NextTeardown]_vars

\* The pointer: frames whose ray may meet bodies, and clicks.
NextPointer ==
    \/ SetDiscoverySnapshot
    \/ connectedCallback
    \/ Update
    \/ animatePointer
    \/ onCanvasClick
    \/ disconnectedCallback

SpecPointer == Init /\ [][NextPointer]_vars

\* A further call of createNeuralNetwork on the scene init has built: the
\* method is called by init only, and is written to be called again.
createNeuralNetworkAgain ==
    /\ initialized
    /\ Len(networks) < MaxNetworks
    /\ LET n == createNeuralNetwork([neuralNetwork |-> neuralNetwork,
                                     networks |-> networks])
       IN  /\ neuralNetwork' = n.neuralNetwork
           /\ networks' = n.networks
    /\ log' = <<Step("createNeuralNetwork", "", "")>>
    /\ UNCHANGED <<connected, updatesEnabled, changedProperties, initialized,
                   planetsData, selectedPlanetId, isScanning, micStream,
                   sceneVars, disposalVars, resizeListener, frameVars,
                   cameraVars, decorationsVisible, poseVars, hoverVars,
                   interactionVars, uniforms, hostVars, requestVars,
                   singleVars, historyVars>>

\* The scene's decorations: scans, reconciles, repeated builds of the
\* network, teardown.
NextNetwork ==
    \/ SetDiscoverySnapshot
    \/ SetIsScanning
    \/ connectedCallback
    \/ Update
    \/ createNeuralNetworkAgain
    \/ disconnectedCallback

SpecNetwork == Init /\ [][NextNetwork]_vars

\* The orchestrator's discovery process and the element it renders.
NextDiscovery ==
    \/ hostFirstRender
    \/ Update
    \/ handleSynthesis
    \/ discoveryInterval
    \/ synthesisSucceeds
    \/ synthesisFails
    \/ utteranceEnds
    \/ animateOverArray

SpecDiscovery == Init /\ [][NextDiscovery]_vars

\* The orchestrator's audio button, the microphone's answers and the
\* element's teardown.
NextAudio ==
    \/ hostFirstRender
    \/ Update
    \/ enableAudio
    \/ getUserMediaResolves
    \/ getUserMediaRejects
    \/ animateOverArray
    \/ disconnectedCallback

SpecAudio == Init /\ [][NextAudio]_vars

\* The orchestrator's voice command: the microphone, the recognition
\* session, the discovery it starts and the utterances that announce it.
NextVoice ==
    \/ hostFirstRender
    \/ Update
    \/ enableAudio
    \/ getUserMediaResolves
    \/ handleVoiceCommand
    \/ recognitionStarts
    \/ recognitionResult
    \/ recognitionEnds
    \/ handleSynthesis
    \/ discoveryInterval
    \/ synthesisSucceeds
    \/ synthesisFails
    \/ utteranceEnds

SpecVoice == Init /\ [][NextVoice]_vars

SetIsListening ==
    /\ ~tornDown
    /\ isListening' = ~isListening
    /\ UNCHANGED <<planetsData, selectedPlanetId, isScanning, micStream,
                   isSpeaking, sameSnapshot>>
    /\ IF updatesEnabled
         THEN UpdateCycle(changedProperties \cup {"isListening"},
                          planetsData, selectedPlanetId, isScanning)
         ELSE Pending("isListening")

SetIsSpeaking ==
    /\ ~tornDown
    /\ isSpeaking' = ~isSpeaking
    /\ UNCHANGED <<planetsData, selectedPlanetId, isScanning, micStream,
                   isListening, sameSnapshot>>
    /\ IF updatesEnabled
         THEN UpdateCycle(changedProperties \cup {"isSpeaking"},
                          planetsData, selectedPlanetId, isScanning)
         ELSE Pending("isSpeaking")

\* The entity: interaction state, audio stream and frame ticks.
NextEntity ==
    \/ SetIsListening
    \/ SetIsSpeaking
    \/ SetMicStream
    \/ SetDiscoverySnapshot
    \/ connectedCallback
    \/ Update
    \/ animate

SpecEntity == Init /\ [][NextEntity]_vars

\* The scene registry fed with snapshots whose records may be malformed.
NextMalformed ==
    \/ SetAnySnapshot
    \/ connectedCallback
    \/ Update

SpecMalformed == Init /\ [][NextMalformed]_vars

TypeOK ==
    /\ connected \in BOOLEAN
    /\ changedProperties \subseteq PropNames
    /\ planetsData \in AnySnapshots
    /\ SeqRange(sceneChildren) \subseteq SeqRange(Keys(planets))
    /\ elapsed \in 0..MaxElapsed
    /\ hoveredPlanetId \in Ids \cup {Null}
    /\ cursor \in {"", "pointer", "auto"}
    /\ tooltipDisplay \in {"", "block", "none"}
    /\ Len(intersects) <= 2

\* ---------------------------------------------------------------- claims
\* Positions in a handler's log of the steps `op` on body `id`.
Indices(l, op, id) == {i \in 1..Len(l) : l[i].op = op /\ l[i].id = id}

\* The log is that of an update cycle in which updatePlanets ran.
ReconcileRan(l) == l # <<>> /\ l[1].op = "updatePlanets"

\* The log is that of disconnectedCallback.
TeardownRan(l) == l # <<>> /\ l[1] = Step("removeListener", "", "resize")

\* How often the release step (the dispose traversal, which always starts at
\* the core mesh's geometry) ran on body `id`.
Released(l, id) ==
    Cardinality({i \in Indices(l, "dispose", id) : l[i].what = "core.geometry"})

IdsOf(data) == SeqRange(currentPlanetIds(data))

\* C1: whenever updatePlanets has processed a snapshot and returned, the key
\* set of the live-body map planets is exactly the set of
\* celestial_body_id values that occur in that snapshot.
C1_LiveIdsEqualSnapshot ==
    outcome = "returned" => SeqRange(Keys(planets)) = IdsOf(planetsData)

\* A second reconcile has returned after removing one body and creating
\* another.
C1_Witness ==
    /\ outcome = "returned"
    /\ ReconcileRan(log)
    /\ \E a, b \in Ids :
          /\ Indices(log, "delete", a) # {}
          /\ Indices(log, "create", b) # {}
          /\ SeqRange(Keys(planets)) = {b}

\* C2: in a reconcile of S2 that follows a reconcile of S1 (both returning),
\* the release step runs exactly once for every id of S1 that is not in S2,
\* and not at all for any other id, in particular none present in both.
C2_ReleasedOncePerRemovedId ==
    [][(ReconcileRan(log') /\ outcome = "returned" /\ outcome' = "returned")
          => \A id \in Ids :
                Released(log', id) =
                    IF id \in IdsOf(planetsData) \ IdsOf(planetsData') THEN 1 ELSE 0]_vars

\* A reconcile released one body and retained another.
C2_Witness ==
    /\ outcome = "returned"
    /\ ReconcileRan(log)
    /\ \E a, b \in Ids :
          /\ Released(log, a) = 1
          /\ ~Has(planets, a)
          /\ Has(planets, b)
          /\ Indices(log, "create", b) = {}
          /\ Released(log, b) = 0

\* C3 (as claimed): every GPU resource of a body removed by reconcile - the
\* geometry, the material and the texture of each of its sub-meshes - has
\* been disposed by the release step.
C3_RemovedFullyReleased ==
    \A i \in 1..Len(removedGroups) :
        removedGroups[i].resources \subseteq removedGroups[i].disposed

\* C4 (as claimed): on removal, every dispose of a body's resources precedes
\* the detachment of the body's group from the scene.
C4_DisposeBeforeDetach ==
    ReconcileRan(log) =>
        \A id \in Ids :
            \A i \in Indices(log, "dispose", id), d \in Indices(log, "detach", id) :
                i < d

\* C4 (amended): on removal, the body's group is first detached from the
\* scene, then its geometries and materials are disposed, and only then is
\* the body dropped from the live map.
C4_DetachDisposeDelete ==
    ReconcileRan(log) =>
        \A id \in Ids :
            /\ Indices(log, "detach", id) # {} =>
                  /\ Indices(log, "dispose", id) # {}
                  /\ Indices(log, "delete", id) # {}
            /\ \A i \in Indices(log, "dispose", id) :
                  /\ \A d \in Indices(log, "detach", id) : d < i
                  /\ \A k \in Indices(log, "delete", id) : i < k

\* A reconcile removed a ringed body: detach, six disposals, delete.
C4_Witness ==
    /\ ReconcileRan(log)
    /\ \E id \in Ids :
          /\ Indices(log, "detach", id) # {}
          /\ Cardinality(Indices(log, "dispose", id)) = 6
          /\ Indices(log, "delete", id) # {}

\* The place of a teardown step in the claimed order: cancel the frame
\* callback, stop audio capture, release the listeners, dispose the bodies,
\* dispose the shared resources, release the renderer.
ClaimedPhase(e) ==
    CASE e.op = "cancelAnimationFrame" -> 1
      [] e.op = "stopTracks" -> 2
      [] e.op = "removeListener" -> 3
      [] e.op = "dispose" /\ e.what = "controls" -> 3
      [] e.op = "dispose" /\ e.id # "" -> 4
      [] e.op = "dispose" /\ e.what = "renderer" -> 6
      [] OTHER -> 5

\* The place of a teardown step in the order of disconnectedCallback.
ActualPhase(e) ==
    CASE e.op = "removeListener" -> 1
      [] e.op = "cancelAnimationFrame" -> 2
      [] e.op = "stopTracks" -> 3
      [] e.op = "dispose" /\ e.what = "controls" -> 4
      [] e.op = "dispose" /\ e.id # "" -> 6
      [] e.op = "dispose" /\ e.what = "renderer" -> 7
      [] OTHER -> 5

\* C5 (as claimed): teardown performs its steps in the order cancel frame
\* callback, stop audio, release listeners, dispose bodies, dispose shared
\* resources, release renderer.
C5_ClaimedTeardownOrder ==
    TeardownRan(log) =>
        \A i, j \in 1..Len(log) : i < j => ClaimedPhase(log[i]) <= ClaimedPhase(log[j])

\* C5 (amended): teardown performs its steps in the order release the
\* resize, pointer and click listeners, cancel the frame callback, stop
\* audio capture, dispose the controls, dispose the shared scene objects,
\* dispose the attached bodies, release the renderer.
C5_TeardownOrder ==
    TeardownRan(log) =>
        \A i, j \in 1..Len(log) : i < j => ActualPhase(log[i]) <= ActualPhase(log[j])

\* A teardown that performed a step of each of the seven kinds.
C5_Witness ==
    /\ TeardownRan(log)
    /\ {ActualPhase(log[i]) : i \in 1..Len(log)} = 1..7

\* C6 (as claimed): once teardown has run on the initialised scene, every
\* live body's resources and every shared resource, the starfield's and the
\* star's included, have been disposed.
C6_AllDisposedAfterTeardown ==
    rendererDisposed =>
        /\ SharedResources \subseteq sharedDisposed
        /\ \A i \in 1..Len(planets) :
              ResourcesOf(planets[i].hasRings) \subseteq planets[i].disposed

\* C7 (as claimed): once the element has been torn down, no frame callback
\* is scheduled.
C7_NoFrameAfterTeardown ==
    tornDown => rafPending = {}

\* C8: a reconcile of a snapshot equal to the one the previous reconcile
\* processed (and returned from) creates nothing, removes nothing and leaves
\* the live map and the scene's attachments as they were.
C8_SameSnapshotNoop ==
    [][(ReconcileRan(log') /\ sameSnapshot' /\ outcome = "returned")
          => /\ planets' = planets
             /\ sceneChildren' = sceneChildren
             /\ \A i \in 1..Len(log') : log'[i].op = "updatePlanets"]_vars

\* The same two-body snapshot was reconciled again.
C8_Witness ==
    /\ sameSnapshot
    /\ outcome = "returned"
    /\ ReconcileRan(log)
    /\ Len(planets) = 2
    /\ Len(sceneChildren) = 2

\* C9: a live body whose id occurs in the new snapshot is neither re-created
\* nor changed by the reconcile, whatever the content of its new record.
C9_RetainedUntouched ==
    [][ReconcileRan(log')
          => \A id \in SeqRange(Keys(planets)) \cap IdsOf(planetsData') :
                /\ Has(planets', id)
                /\ Get(planets', id) = Get(planets, id)
                /\ Indices(log', "create", id) = {}
                /\ Indices(log', "detach", id) = {}]_vars

\* A reconcile retained a body although the record of its id now describes
\* another body (rings and size differ).
C9_Witness ==
    /\ ReconcileRan(log)
    /\ outcome = "returned"
    /\ \E i \in 1..Len(planetsData) :
          LET id == planetsData[i].celestial_body_id
          IN  /\ Has(planets, id)
              /\ Indices(log, "create", id) = {}
              /\ Get(planets, id).hasRings # planetsData[i].hasRings
              /\ Get(planets, id).planetSize # planetSize(planetsData[i].planetType)

\* C10: while a body stays live, whatever happens (reconciles, frame ticks,
\* selection changes), its orbitalRadius and orbitSpeed keep the values
\* written at its creation.
C10_OrbitParametersFixed ==
    [][\A id \in Ids :
          (Has(planets, id) /\ Has(planets', id)) =>
              /\ Get(planets', id).orbitalRadius = Get(planets, id).orbitalRadius
              /\ Get(planets', id).orbitSpeed = Get(planets, id).orbitSpeed]_vars

\* A body created at snapshot index 1 is, frames and a selection later, the
\* only body of the snapshot (index 0) and still on its first orbit.
C10_Witness ==
    /\ elapsed > 0
    /\ selectedPlanetId # Null
    /\ Len(planetsData) = 1
    /\ \E id \in Ids :
          /\ planetsData[1].celestial_body_id = id
          /\ Has(planets, id)
          /\ Get(planets, id).orbitalRadius = orbitalRadiusOf(1)
          /\ Get(planets, id).position # <<orbitalRadiusOf(1), 0, 0>>

\* The position, counted from 0, of the first record of `id` in a snapshot.
IndexOf(data, id) ==
    (CHOOSE i \in 1..Len(data) :
        /\ data[i].celestial_body_id = id
        /\ \A j \in 1..(i - 1) : data[j].celestial_body_id # id) - 1

\* The bodies the reconcile recorded in log l created.
CreatedIn(l) == {id \in Ids : Indices(l, "create", id) # {}}

\* C11: a body created from the record at position index of the snapshot
\* being reconciled has orbitalRadius = 15 + index * 8, so bodies created
\* from adjacent positions of one snapshot differ by exactly 8.
C11_RadiusFromIndex ==
    ReconcileRan(log) =>
        /\ \A id \in CreatedIn(log) :
              /\ Has(planets, id)
              /\ Get(planets, id).orbitalRadius = 15 + IndexOf(planetsData, id) * 8
        /\ \A a, b \in CreatedIn(log) :
              IndexOf(planetsData, b) = IndexOf(planetsData, a) + 1 =>
                  Get(planets, b).orbitalRadius - Get(planets, a).orbitalRadius = 8

\* The snapshot {A (index 0, no rings), B (index 1, rings)} was reconciled on
\* the empty scene: two live bodies one radius step apart, one ring mesh.
C11_Witness ==
    /\ ReconcileRan(log)
    /\ outcome = "returned"
    /\ CreatedIn(log) = {"A", "B"}
    /\ IndexOf(planetsData, "A") = 0
    /\ IndexOf(planetsData, "B") = 1
    /\ Get(planets, "B").orbitalRadius = Get(planets, "A").orbitalRadius + 8
    /\ ~Get(planets, "A").hasRings
    /\ Get(planets, "B").hasRings

\* C12 (as claimed): any two distinct live bodies (groups of the Map that
\* are attached to the scene) have different orbitalRadius values.
C12_OrbitsDistinct ==
    \A i, j \in 1..Len(planets) :
        (/\ i # j
         /\ planets[i].id \in SeqRange(sceneChildren)
         /\ planets[j].id \in SeqRange(sceneChildren))
        => planets[i].orbitalRadius # planets[j].orbitalRadius

\* A frame ran in the handler that recorded log l (_animate got past its
\* guard and rendered).
FrameRan(l) == l # <<>> /\ l[Len(l)].op = "render"

\* C13 (as claimed): once the scene is initialized, whenever no body is
\* selected the commanded camera pose is the default wide view, position
\* (0,15,40) and look-at (0,0,0).
C13_DefaultPoseWhenUnselected ==
    (initialized /\ selectedPlanetId = Null) =>
        /\ targetPosition = <<0, 15, 40>>
        /\ targetLookAt = <<0, 0, 0>>

\* C14 (as claimed): in every state after initialization, auto-rotation is on
\* if and only if no body is selected.
C14_ModeMatchesSelection ==
    initialized => (autoRotate <=> selectedPlanetId = Null)

\* C15: when selectedPlanetId changes to the id of a live body on the
\* initialized scene, the commanded camera position becomes that body's
\* position plus (0,3,10) and the commanded look-at becomes that body's
\* position.
C15_FocusOnSelection ==
    [][(/\ initialized
        /\ selectedPlanetId' # selectedPlanetId
        /\ selectedPlanetId' # Null
        /\ changedProperties' = {}
        /\ Has(planets', selectedPlanetId'))
          => LET position == Get(planets', selectedPlanetId').position
             IN  /\ targetPosition' =
                       <<position[1], position[2] + 3, position[3] + 10>>
                 /\ targetLookAt' = position]_vars

\* A body that has moved along its orbit is selected and the commanded pose
\* frames it where it is.
C15_Witness ==
    /\ initialized
    /\ selectedPlanetId # Null
    /\ Has(planets, selectedPlanetId)
    /\ log = <<>>
    /\ elapsed > 0
    /\ Get(planets, selectedPlanetId).position[3] # 0
    /\ targetLookAt = Get(planets, selectedPlanetId).position
    /\ targetPosition = VecAdd(targetLookAt, <<0, 3, 10>>)

\* C16 (as claimed): in Focused mode, after every frame the commanded look-at
\* is the selected body's current position and the commanded position is
\* that position plus (0,3,10).
C16_TargetTracksBody ==
    (/\ FrameRan(log)
     /\ initialized
     /\ ~autoRotate
     /\ selectedPlanetId # Null
     /\ Has(planets, selectedPlanetId))
    => LET position == Get(planets, selectedPlanetId).position
       IN  /\ targetLookAt = position
           /\ targetPosition = <<position[1], position[2] + 3, position[3] + 10>>

Abs(x) == IF x < 0 THEN -x ELSE x

FirstStep(l, op, what) ==
    CHOOSE i \in 1..Len(l) :
        /\ l[i].op = op /\ l[i].what = what
        /\ \A j \in 1..(i - 1) : ~(l[j].op = op /\ l[j].what = what)

\* The part of log l that the frame wrote: from its requestAnimationFrame on.
FramePart(l) == SubSeq(l, FirstStep(l, "requestAnimationFrame", ""), Len(l))

C19_HoverIsNearestOwner ==
    FrameRan(log) =>
        /\ hoveredPlanetId =
              (IF intersects = <<>> THEN Null ELSE intersects[1].parent)
        /\ hoveredPlanetId = Null =>
              (cursor = "auto" /\ tooltipDisplay # "block")

\* The ray meets two bodies, one behind the other; the nearer one is hovered.
C19_Witness ==
    /\ log = FrameSteps
    /\ Len(intersects) = 2
    /\ intersects[1].parent # intersects[2].parent
    /\ hoveredPlanetId = intersects[1].parent
    /\ cursor = "pointer"
    /\ tooltipDisplay = "block"

\* The planet-selected events that the handler that recorded l dispatched.
Dispatched(l) ==
    {i \in 1..Len(l) : l[i].op = "dispatchEvent" /\ l[i].what = "planet-selected"}

\* C20: a click dispatches 'planet-selected' if and only if hoveredPlanetId is
\* set, once and carrying that id; a click with no hover dispatches nothing,
\* and no click changes the component's state.
C20_ClickEmitsIffHovered ==
    [][(log' # <<>> /\ log'[1].op = "click") =>
          /\ (Dispatched(log') # {}) <=> (hoveredPlanetId # Null)
          /\ Cardinality(Dispatched(log')) <= 1
          /\ \A i \in Dispatched(log') : log'[i].id = hoveredPlanetId
          /\ \A i \in 1..Len(log') : i \in Dispatched(log') \/ log'[i].op = "click"
          /\ UNCHANGED <<connected, updatesEnabled, changedProperties,
                         initialized, planetsData, selectedPlanetId,
                         isScanning, micStream, planets, sceneChildren,
                         disposalVars, resizeListener, frameVars, cameraVars,
                         decorationsVisible, poseVars, hoverVars,
                         interactionVars, uniforms, hostVars, requestVars, singleVars, networkVars>>]_vars

\* A click on a hovered body has dispatched the event with that body's id.
C20_Witness ==
    /\ hoveredPlanetId # Null
    /\ log = <<Step("click", "", ""),
               Step("dispatchEvent", hoveredPlanetId, "planet-selected")>>

\* C22 (as claimed): whenever a frame can tick, the live-body map and the
\* scene graph agree: every group of planets is attached to the scene and
\* every attached planet group is in planets.
C22_MapAndSceneAgree ==
    (initialized /\ rafPending # {} /\ changedProperties = {}) =>
        SeqRange(Keys(planets)) = SeqRange(sceneChildren)

\* The record lacks none of the visual parameters createPlanet reads.
IsWellFormed(r) == r.planetType # Null /\ r.visualization

\* C23 (as claimed): a reconcile of the initialized scene never fails on a
\* malformed record: it returns, and afterwards a body is live for every
\* well-formed record of the snapshot.
C23_MalformedRecordRecovered ==
    (/\ ReconcileRan(log)
     /\ initialized
     /\ \A i \in 1..Len(log) : log[i].op # "init")
    => /\ outcome = "returned"
       /\ \A i \in 1..Len(planetsData) :
             IsWellFormed(planetsData[i])
                => Has(planets, planetsData[i].celestial_body_id)

\* How many groups of body id are attached to the scene.
Attached(children, id) ==
    Cardinality({i \in 1..Len(children) : children[i] = id})

\* C24 (as claimed): after a reconcile has returned, for every id of the
\* snapshot, also one that occurs twice in it or was live before, exactly
\* one body is in the Map, it is the first one created for the id, and
\* exactly one group of the id is attached to the scene.
C24_DuplicateIdsIgnored ==
    (ReconcileRan(log) /\ outcome = "returned") =>
        \A id \in IdsOf(planetsData) :
            /\ Cardinality({i \in 1..Len(planets) : planets[i].id = id}) = 1
            /\ Cardinality(Indices(log, "create", id)) <= 1
            /\ Attached(sceneChildren, id) = 1

\* C21 (as claimed): once the element has updated after a render of the
\* host, the host's discoveries are the element's body snapshot, and the id
\* of every discovered planet is in the live-body Map.
C21_DiscoveriesReachTheScene ==
    (initialized /\ changedProperties = {}) =>
        /\ planetsData = discoveredPlanets
        /\ \A i \in 1..Len(discoveredPlanets) :
              Has(planets, discoveredPlanets[i].celestial_body_id)

\* C25 (as claimed): from the creation of the entity on, whenever no audio
\* stream is attached, the uniform uAudioData holds a defined buffer, never
\* null or undefined.
C25_AudioFieldDefined ==
    (initialized /\ micStream = Null) => uniforms.uAudioData # Null

\* C26 (as claimed): when getUserMedia is denied, enableAudio leaves
\* micStream none and records an error, the pending frame request is
\* untouched, and the audio field holds its neutral buffer.
C26_DeniedAudioDegrades ==
    (log = <<Step("enableAudio", "", "denied")>>) =>
        /\ micStream = Null
        /\ hostError # Null
        /\ rafPending # {}
        /\ uniforms.uAudioData # Null

\* C27: whenever a live stream is released, by enableAudio with a stream
\* attached or by the teardown of the scene, the handler that releases it
\* stops the tracks of that stream, and the stream is never left capturing.
C27_ReleaseStopsCapture ==
    [][(micStream = "live" /\ micStream' # "live") =>
          /\ \E i \in 1..Len(log') : log'[i] = Step("stopTracks", "", "micStream")
          /\ micStream' \in {Null, "stopped"}]_vars

\* The audio was toggled off: the tracks were stopped and micStream cleared.
C27_Witness ==
    /\ micStream = Null
    /\ log = <<Step("stopTracks", "", "micStream")>>
    /\ connected

\* C28: after every frame uState is 1 if listening, otherwise 2 if speaking,
\* otherwise 0; once the entity exists uState is always one of 0, 1, 2.
C28_StateUniform ==
    /\ FrameRan(log) =>
          uniforms.uState = (IF isListening THEN 1
                             ELSE IF isSpeaking THEN 2 ELSE 0)
    /\ initialized => uniforms.uState \in {0, 1, 2}

\* A frame has run while the host was both listening and speaking.
C28_Witness ==
    /\ log = FrameSteps
    /\ isListening /\ isSpeaking
    /\ uniforms.uState = 1
    /\ elapsed > 0

\* C29 (as claimed): in every state after initialization the decorations are
\* visible if and only if isScanning is true.
C29_DecorationsFollowScanning ==
    (initialized /\ changedProperties = {}) => (decorationsVisible <=> isScanning)

\* C30: after every frame, the position of every body of the Map is
\* (cos(t * orbitSpeed) * orbitalRadius, 0, sin(t * orbitSpeed) * orbitalRadius)
\* for the elapsed time t of the clock, whatever frames and deltas led to t
\* and whenever the body was created.
C30_PositionFromElapsedTime ==
    FrameRan(log) =>
        \A i \in 1..Len(planets) :
            planets[i].position =
                <<Cos4(elapsed * planets[i].orbitSpeed) * planets[i].orbitalRadius,
                  0,
                  Sin4(elapsed * planets[i].orbitSpeed) * planets[i].orbitalRadius>>

\* Two frames of one tick each have brought the clock to 2, where one frame
\* of two ticks would have brought it too; a body created after the first
\* of them has made half a turn.
C30_Witness ==
    /\ log = FrameSteps
    /\ elapsed = 2
    /\ animationFrameId = 1
    /\ \E i \in 1..Len(planets) :
          /\ planets[i].orbitSpeed = 1
          /\ planets[i].rotationY = 1
          /\ planets[i].position = <<-planets[i].orbitalRadius, 0, 0>>

\* The frame-scheduling steps in the log l of one handler.
Scheduled(l) == {i \in 1..Len(l) : l[i].op = "requestAnimationFrame"}

\* C31: the frame loop is a single loop that is never re-entered: at most
\* one frame callback is pending at any time; a handler in which a frame
\* runs requests exactly one successor, which is then the only pending
\* callback and is not the callback that ran; and the frame's steps are the
\* last steps of that handler, so that a frame starts only after the
\* reconcile of the same handler has finished and no second frame starts
\* within it.
C31_SingleFrameLoop ==
    [][/\ Cardinality(rafPending') <= 1
       /\ FrameRan(log') =>
             /\ Cardinality(Scheduled(log')) = 1
             /\ rafPending' = {animationFrameId'}
             /\ animationFrameId' \notin rafPending
             /\ FramePart(log') = FrameSteps]_vars

\* A tick of the running loop: a frame ran from a pending callback, after
\* the frame that init started, and left its one successor pending.
C31_Witness ==
    /\ log = FrameSteps
    /\ elapsed > 0
    /\ planets # <<>>
    /\ rafPending = {animationFrameId}


\* C32 (as claimed): every 'planet-selected' event a click dispatches carries
\* the id of a body that is in the live map when the event is dispatched,
\* whatever frames and reconciles preceded the click.
C32_SelectionIsLive ==
    [][\A i \in Dispatched(log') : Has(planets, log'[i].id)]_vars

\* C33 (as claimed): the orchestrator's isLoading flag, which the element
\* receives as isScanning, is true exactly while at least one
\* synthesizeExoplanet request is waiting for its response.
C33_LoadingWhileInFlight ==
    (initialized /\ connected) => (isScanning <=> inFlight > 0)

\* The handler that recorded log l stored a discovery.
Discovered(l) == l # <<>> /\ l[1].op = "discovery"

\* C34 (as claimed): every successful synthesizeExoplanet adds exactly one
\* entry to discoveredPlanets, under an id that no entry had before, and
\* selects it; and no step ever removes or replaces an entry that
\* discoveredPlanets held.
C34_DiscoveryAddsFreshEntry ==
    [][/\ Len(discoveredPlanets) <= Len(discoveredPlanets')
       /\ SubSeq(discoveredPlanets', 1, Len(discoveredPlanets)) = discoveredPlanets
       /\ Discovered(log') =>
             /\ Len(discoveredPlanets') = Len(discoveredPlanets) + 1
             /\ ~hasId(discoveredPlanets, log'[1].id)
             /\ hasId(discoveredPlanets', log'[1].id)
             /\ selectedPlanetId' = log'[1].id]_vars

\* The handler that recorded log l caught a failed request.
Caught(l) == l # <<>> /\ l[1].op = "catch"

\* C35: a synthesizeExoplanet that fails (the request is rejected, the
\* response holds no JSON object, or the JSON cannot be parsed) leaves
\* discoveredPlanets and selectedPlanetId as they were, stores an error
\* message that names the failure, and ends with isLoading reset.
C35_FailureLeavesDiscoveries ==
    [][Caught(log') =>
          /\ discoveredPlanets' = discoveredPlanets
          /\ selectedPlanetId' = selectedPlanetId
          /\ hostError' = errorMessage(log'[1].what)
          /\ hostError' # Null
          /\ ~isScanning'
          /\ inFlight' = inFlight - 1]_vars

\* A request failed on unparsable JSON after an earlier discovery, which is
\* still there and still selected.
C35_Witness ==
    /\ Caught(log)
    /\ log[1].what = "unparsable"
    /\ hostError = "Synthesis Failed: Failed to parse AI response."
    /\ discoveredPlanets # <<>>
    /\ selectedPlanetId = discoveredPlanets[Len(discoveredPlanets)].celestial_body_id
    /\ ~isScanning

\* C36 (as claimed): the interaction state is a single value: the
\* orchestrator's isListening and isSpeaking are never both true.
C36_ListeningXorSpeaking ==
    ~(isListening /\ isSpeaking)

\* C37 (as claimed): at most one microphone stream is capturing at any time,
\* and every acquired stream is referenced by micStream until it is stopped:
\* no capturing stream exists that micStream does not reference.
C37_OneReferencedStream ==
    /\ orphanStreams = 0
    /\ orphanStreams + (IF micStream = "live" THEN 1 ELSE 0) <= 1

\* C38 (as claimed): in the single-planet scene, once the scene exists and
\* the changes of planetData have been processed, the scene holds at most
\* one planet group, and one is attached if and only if planetData is not
\* null.
C38_OnePlanetIffData ==
    (singleVisuals.sceneDefined /\ singleVisuals.changed = {}) =>
        /\ Len(singleVisuals.attached) <= 1
        /\ (Len(singleVisuals.attached) = 1) <=> (singleVisuals.planetData # None)

\* C39: in the single-planet interface, planetData is null for as long as
\* a synthesis is loading, a request is waiting exactly while isLoading is
\* set, and the step in which synthesizeExoplanet settles ends with
\* isLoading false and exactly one of planetData and error set.
C39_LoadingThenPlanetOrError ==
    [][/\ singleInterface'.isLoading => singleInterface'.planetData = None
       /\ singleInterface'.isLoading <=> (singleInterface'.requests > 0)
       /\ (singleInterface'.requests < singleInterface.requests) =>
             /\ ~singleInterface'.isLoading
             /\ (singleInterface'.planetData # None)
                    <=> (singleInterface'.error = Null)]_vars

\* The second of two syntheses has settled on the JSON null: no planet is
\* held or attached and the error is set.
C39_Witness ==
    /\ ~singleInterface.isLoading
    /\ singleInterface.planetData = None
    /\ singleInterface.error = "Synthesis Failed: Cannot read properties of null"
    /\ singleInterface.calibratingTimeouts = 2
    /\ singleVisuals.sceneDefined
    /\ singleVisuals.attached = <<>>
    /\ ~singleVisuals.threw

\* The LineSegments objects of the scene that are attached to it.
AttachedNetworks == {i \in 1..Len(networks) : networks[i].attached}

\* C40: createNeuralNetwork is idempotent with respect to scene contents:
\* after any number of calls exactly one LineSegments network is attached to
\* the scene, it is the one this.neuralNetwork refers to, and every network
\* a call replaced is detached with its geometry and its material disposed.
C40_OneNetworkAttached ==
    initialized =>
        /\ AttachedNetworks = {neuralNetwork}
        /\ neuralNetwork = Len(networks)
        /\ \A i \in 1..Len(networks) :
               i # neuralNetwork =>
                   /\ ~networks[i].attached
                   /\ networks[i].disposed = {"geometry", "material"}

\* createNeuralNetwork has run three times (init and two further calls) on a
\* connected scene: two networks were replaced, the third is attached
\* and not disposed.
C40_Witness ==
    /\ connected
    /\ Len(networks) = 3
    /\ neuralNetwork = 3
    /\ networks[3].attached
    /\ networks[3].disposed = {}
    /\ networks[1].disposed = {"geometry", "material"}
    /\ log = <<Step("createNeuralNetwork", "", "")>>
====
